---- MODULE Spec2Model ----
(***************************************************************************)
(* Tiered memory subsystem of koishi-plugin-mio: Working Memory buffer,    *)
(* episodic retriever, relational closeness tiers, the stages of the       *)
(* distillation pipeline (semantic-fact maintenance, impressions, cleanup  *)
(* by age or by retention) and the extraction trigger with its lock.       *)
(*                                                                         *)
(* Time is counted in days (Date.now() / 86400_000); only the order of     *)
(* timestamps and the day thresholds (7, 21, 30) of the code matter.  The   *)
(* clock has advanced whenever an ingest call that carries episodes has    *)
(* read it, so that an accepted episode is identified by                   *)
(* (groupId, summary, eventTime).                                          *)
(*                                                                         *)
(* Embeddings are integer vectors of dimension 5; cosineSimilarity is      *)
(* compared against a rational threshold p/q exactly, by cross             *)
(* multiplication, so that 0.9 and 0.95 are met exactly.                   *)
(*                                                                         *)
(* The store is linearizable: a get returns the rows present when the      *)
(* awaiting continuation runs, a create either appends one row or throws.  *)
(***************************************************************************)
EXTENDS Integers, Sequences, FiniteSets, TLC

\* ---------------------------------------------------------------- bounds
MaxCands == 3
MaxFails == 1

\* config.maxPendingWrites (default 20), scaled down with the model
maxPendingWrites == 2

\* The size cap of a chunk (30 in chunkMessages), scaled down with the model
ChunkLimit == 5
\* The longest input of extractMemories
MaxMessages == 6
\* The most idle gaps in an input of extractMemories
MaxIdleGaps == 1

\* ------------------------------------------------------------- constants
Groups == {"g1", "g2"}
None == "none"

\* The idle gap that ends a chunk, in minutes (5 * 60 * 1000 ms)
GapLimit == 5
\* isSpamChunk: the smallest chunk that can be spam
MinSpamChunk == 5
\* hasRelevantTopics: the keyword matches that make a chunk relevant
TopicMatches == 3

\* ------------------------------------------------------------- embedding
\* The embedding service, as a fixed table summary -> vector.
\* cos(E(1),E(2)) = 380/400 = 0.95, cos(E(1),E(4)) = 360/400 = 0.9,
\* cos(E(1),E(3)) = 0, cos(E(2),E(3)) = 100/400.
Summaries == {1, 2, 3}

\* The candidates extraction may produce for a community, and the lengths
\* of one result's episode list.
SummariesOf(g) == IF g = "g1" THEN Summaries ELSE {1}
EpisodeCounts == {1, 2}

Embed(summary) ==
  CASE summary = 1 -> <<20, 0, 0, 0, 0>>
    [] summary = 2 -> <<19, 5, 3, 2, 1>>
    [] summary = 3 -> <<0, 20, 0, 0, 0>>
    [] summary = 4 -> <<18, 6, 6, 2, 0>>
    [] OTHER -> <<>>

RECURSIVE DotUpTo(_, _, _)
DotUpTo(a, b, n) == IF n = 0 THEN 0 ELSE a[n] * b[n] + DotUpTo(a, b, n - 1)

Dot(a, b) == DotUpTo(a, b, Len(a))

\* Sign of cosineSimilarity(a, b) - p/q  (p, q > 0): 1, 0 or -1.
\* cosineSimilarity is 0 for vectors of different or zero length and for a
\* zero denominator.
CosCmp(a, b, p, q) ==
  IF Len(a) # Len(b) \/ Len(a) = 0 THEN -1
  ELSE LET dot == Dot(a, b)
           nA == Dot(a, a)
           nB == Dot(b, b)
       IN IF nA * nB = 0 \/ dot <= 0 THEN -1
          ELSE IF q * q * dot * dot > p * p * nA * nB THEN 1
          ELSE IF q * q * dot * dot = p * p * nA * nB THEN 0
          ELSE -1

\* A duplicate test that compares the vectors for equality
IsDupEmbedding_Equality(a, b) == a = b

\* cosineSimilarity(a, b) > 0.9, the duplicate test of ingest
IsDupEmbedding(a, b) == CosCmp(a, b, 9, 10) = 1

\* ----------------------------------------------------------------- state
VARIABLES
  now,              \* Date.now(), in days
  pendingEpisodic,  \* WorkingMemory.pendingEpisodic (the current array)
  episodic,         \* rows of 'mio.episodic', row id = index
  flushTimer,       \* WorkingMemory.flushTimer: "none", "armed", "fired"
  flush,            \* the flush() calls in flight, by slot
  ing,              \* the ingest() call in flight of each community
  offered,          \* history: candidate episodes offered so far
  flushOutcome,     \* how the last flush() that wrote returned, and
                    \* (history) whether it ran undisturbed
  fails,            \* history: collaborator failures so far
  everOverlap       \* history: two flush() calls were in flight at once

wmVars == <<pendingEpisodic, episodic, flushTimer, flush, ing, flushOutcome,
            offered, fails, everOverlap>>

VARIABLES
  rel,              \* the 'mio.relational' row of one person in one community
  relWriter,        \* which writer of the row this build has
  distillation,     \* the daily distillation run: "idle", "running" (the
                    \* per-community stages) or "cleanup"
  cycleTier         \* history: the person's tier when the run started

relVars == <<rel, relWriter, distillation, cycleTier>>

VARIABLES
  semantic,         \* rows of 'mio.semantic' of one community, row id = index
  maintain,         \* the maintainSemanticFacts call in flight
  semWrites         \* history: writes to 'mio.semantic' so far

semVars == <<semantic, maintain, semWrites>>

VARIABLES
  retrieved,        \* the EpisodicRetriever.retrieve call of the reply
                    \* being assembled: its arguments and the memories
                    \* it returned
  accessUpdates     \* the updateAccessCounts calls in flight: the
                    \* memories still to count, and the row read for the
                    \* first of them

retVars == <<retrieved, accessUpdates>>

VARIABLES
  extractionLocks,  \* the communities with an entry in extractionLocks
  recording,        \* per community, the memory.record calls in flight
  lastSummary       \* the RecordSummary the last memory.record returned

apiVars == <<extractionLocks, recording, lastSummary>>

VARIABLES
  distillationTimer, \* MemoryService.distillationTimer: "none", "armed",
                     \* "fired" (the handle of a timeout that has run)
  scheduled,         \* the callback of the distillation timer is in flight
  disposed           \* history: MemoryService.dispose() has been called

svcVars == <<distillationTimer, scheduled, disposed>>

VARIABLES
  messages,          \* the messages extractMemories was called with
  chunks,            \* the chunks chunkMessages returned to the call
  extraction         \* the extractMemories call: its position in the
                     \* loop over the chunks, the calls to the model it
                     \* has made and what it has merged so far

extVars == <<messages, chunks, extraction>>

VARIABLES
  parsed             \* what extractChunk made of the model's answer for
                     \* the chunk it was called with

parseVars == <<parsed>>

VARIABLES
  core               \* the core impression of the person's relational
                     \* row, the signal gathered for it, and (history) the
                     \* model calls made for it

coreVars == <<core>>

VARIABLES
  sessionVibes,      \* WorkingMemory.sessionVibes, by community and person
  vibeCall,          \* result.sessionVibes of the ingest in flight
  vibeRead           \* what the last getSessionVibe returned

vibeVars == <<sessionVibes, vibeCall, vibeRead>>

VARIABLES
  pendingCount,      \* MemoryExtractionScheduler.pendingCount
  lastExtractedAt,   \* MemoryExtractionScheduler.lastExtractedAt
  lastActiveMark,    \* MemoryExtractionScheduler.lastActiveMark
  buffer,            \* MessageBuffer.buffers: the messages of a community
  inExtraction,      \* the messages memory.record was called with, for
                     \* the communities whose extraction is in flight
  decision,          \* the ExtractionDecision of the last onNewMessage
  sinceMark          \* history: per community, the messages counted
                     \* since the last markExtracted, those counted after
                     \* the persona's latest message (-1: it has not
                     \* spoken), the timestamps of the messages that
                     \* arrived during an extraction and of those that
                     \* were given to one

schedVars == <<pendingCount, lastExtractedAt, lastActiveMark, buffer,
               inExtraction, decision, sinceMark>>

\* maintainSemanticFacts, new facts
VARIABLES
  lastNew            \* history: the entry of result.newFacts processed last

factVars == <<lastNew>>

\* WorkingMemory of the build that queues relational updates
VARIABLES
  pendingRelUpdates, \* the number of queued relational updates
  accepted           \* history: the episodes ingest has put in the queue

relQueueVars == <<pendingRelUpdates, accepted>>

\* The state of the parts above
lateVars == <<parseVars, coreVars, vibeVars, schedVars, factVars,
              relQueueVars>>

\* Everything but the clock and the Working Memory
otherVars ==
  <<relVars, semVars, retVars, apiVars, svcVars, extVars, lateVars>>

vars == <<now, wmVars, relVars, semVars, retVars, apiVars, svcVars,
          extVars, lateVars>>

\* The flush() calls that can be in flight at once.
FlushSlots == {1, 2}

\* A flush() call in flight: idx elements of its array are written, live
\* tells whether its array is still this.pendingEpisodic, snap is the array
\* otherwise; clean (history) tells that no ingest and no other flush has
\* run since it started; by is the community whose ingest awaits the call
\* (None when the timer or a manual flush started it).
IdleFlush ==
  [st |-> "idle", idx |-> 0, live |-> TRUE, snap |-> <<>>, clean |-> TRUE,
   by |-> None, rels |-> -1]

\* An ingest() call in flight, awaiting embedBatch; now is its Date.now().
\* One ingest call is in flight at a time.
IdleIngest == [st |-> "idle", now |-> 0]

InitQueue ==
  /\ pendingEpisodic = <<>>
  /\ flushTimer = "none"
  /\ flush = [s \in FlushSlots |-> IdleFlush]
  /\ ing = [g \in Groups |-> IdleIngest]
  /\ flushOutcome = [result |-> None, clean |-> TRUE]
  /\ offered = 0
  /\ fails = 0
  /\ everOverlap = FALSE

\* No memory.record call in flight for a community: st is the stage of the
\* call (extract: awaiting extractMemories; ingest: in or after
\* workingMemory.ingest; caught: in the catch block), calls the number of
\* calls in flight, worthRemembering and episodes what the extraction
\* gave, failed (history) whether extraction or buffering failed.
NoRecording ==
  [st |-> "idle", calls |-> 0, worthRemembering |-> FALSE, episodes |-> 0,
   failed |-> FALSE]

NoSummary ==
  [groupId |-> None, worthRemembering |-> FALSE, episodes |-> 0,
   failed |-> FALSE]

InitApi ==
  /\ extractionLocks = [g \in Groups |-> FALSE]
  /\ recording = [g \in Groups |-> NoRecording]
  /\ lastSummary = NoSummary

\* The service after construction: no distillation timer yet
InitService ==
  /\ distillationTimer = "none"
  /\ scheduled = FALSE
  /\ disposed = FALSE

\* No extractMemories call yet
NoExtraction ==
  [stage |-> "idle", i |-> 0, calls |-> <<>>, merged |-> <<>>,
   selected |-> <<>>]

InitExtraction ==
  /\ messages = <<>>
  /\ chunks = <<>>
  /\ extraction = NoExtraction

\* extractChunk has not been called
NoParse ==
  [called |-> FALSE, validUserIds |-> {}, participants |-> <<>>,
   relationalUpdates |-> <<>>, nameObservations |-> <<>>]

InitParse == parsed = NoParse

\* The person's row before any distillation cycle: the core impression
\* (0 is the empty string) with its update time, the last interaction,
\* the significant events, and two counters: the cycles that have reached
\* the person and the model calls made for the core impression
NoCore ==
  [coreImpression |-> 0, coreImpressionUpdatedAt |-> 0,
   lastInteraction |-> 0, events |-> <<>>, cycles |-> 0, calls |-> 0]

InitCore == core = NoCore

\* The persons a vibe can be about
Users == {"u1", "u2"}

\* No entry in sessionVibes; no vibe read
NoVibe == [vibe |-> 0, expiresAt |-> 0]
NoVibes == [g \in Groups |-> [u \in Users |-> NoVibe]]
NoVibeRead == [returned |-> NoVibes, vibe |-> 0]

InitVibes ==
  /\ sessionVibes = NoVibes
  /\ vibeCall = [g \in Groups |-> <<>>]
  /\ vibeRead = NoVibeRead

\* No decision yet
NoDecision == [groupId |-> None, shouldExtract |-> FALSE, reason |-> None,
               pendingCount |-> 0]

\* Nothing counted for a community since the last markExtracted
NothingCounted ==
  [messages |-> 0, sinceBot |-> -1, late |-> {}, extracted |-> {}]

\* The scheduler after the provider has started: markExtracted has been
\* called for every enabled community, no message is buffered
InitSched ==
  /\ pendingCount = [g \in Groups |-> 0]
  /\ lastExtractedAt = [g \in Groups |-> now]
  /\ lastActiveMark = [g \in Groups |-> -1]
  /\ buffer = [g \in Groups |-> <<>>]
  /\ inExtraction = [g \in Groups |-> <<>>]
  /\ decision = NoDecision
  /\ sinceMark = [g \in Groups |-> NothingCounted]

NoNewFact == [subject |-> "", factType |-> "", content |-> 0]

InitLate ==
  /\ lastNew = NoNewFact
  /\ pendingRelUpdates = 0
  /\ accepted = {}
  /\ InitParse
  /\ InitCore
  /\ InitVibes
  /\ InitSched

\* No updateAccessCounts call in flight
NoRead == [id |-> 0, accessCount |-> 0]
NoAccessUpdates == [todo |-> <<>>, read |-> NoRead]

\* No retrieve call yet
NoRetrieve ==
  [groupId |-> None, chatHistoryStart |-> 0, results |-> <<>>]

InitWorkingMemory ==
  /\ now = 1
  /\ episodic = <<>>
  /\ InitQueue
  /\ retrieved = NoRetrieve
  /\ accessUpdates = NoAccessUpdates
  /\ InitApi
  /\ InitService
  /\ InitExtraction
  /\ InitLate

\* The two writers of 'mio.relational': processPersonObservations, and in
\* the build that queues relational updates, WorkingMemory.upsertRelational.
RelWriters == {"person-learning", "working-memory"}

\* No row yet for the person.
NoRelational ==
  [exists |-> FALSE, interactionCount |-> 0, recentInteractionCount |-> 0,
   lastInteraction |-> 0, closenessTier |-> "stranger",
   recentImpressionUpdatedAt |-> 0]

InitRelational ==
  /\ rel = NoRelational
  /\ distillation = "idle"
  /\ cycleTier = None

\* No maintainSemanticFacts call in flight; existingFacts is the array the
\* call loaded, phase the loop of the model's result it has reached, items
\* the entries of the result it has processed, invalid whether one of them
\* lacked a field of the result's schema.
IdleMaintain ==
  [phase |-> "idle", existingFacts |-> <<>>, items |-> 0, invalid |-> FALSE]

InitSemantic ==
  /\ semantic = <<>>
  /\ maintain = IdleMaintain
  /\ semWrites = 0

Init ==
  /\ InitWorkingMemory
  /\ InitRelational
  /\ InitSemantic
  /\ relWriter = "person-learning"

\* ------------------------------------------------------------- helpers
Running(s) == flush[s].st = "run"

\* The array a running flush iterates: the current pendingEpisodic while
\* nobody has reassigned it, the array it started on otherwise.
FlushArray(s) == IF flush[s].live THEN pendingEpisodic ELSE flush[s].snap

\* database.get('mio.episodic', {groupId, archived: false})
ActiveRows(g) ==
  {i \in 1..Len(episodic) : episodic[i].groupId = g /\ ~episodic[i].archived}

\* WorkingMemory.getPendingEpisodic
getPendingEpisodic(g) ==
  SelectSeq(pendingEpisodic, LAMBDA e : e.groupId = g)

\* One flush() call entered with a non-empty queue: the slot it takes.
FreeSlots == {s \in FlushSlots : flush[s].st = "idle"}
PickSlot == CHOOSE s \in FreeSlots : \A t \in FreeSlots : s <= t

\* flush(): the early return, or the start of the write loop (the first
\* create is issued; FlushStep models its completion).
StartedFlush(fl, pend, by) ==
  IF Len(pend) = 0 THEN fl
  ELSE [s \in FlushSlots |->
          IF s = PickSlot
            THEN [st |-> "run", idx |-> 0, live |-> TRUE, snap |-> <<>>,
                  by |-> by, rels |-> -1,
                  clean |-> \A t \in FlushSlots : ~Running(t)]
            ELSE [fl[s] EXCEPT !.clean = IF Running(s) THEN FALSE ELSE @]]

OverlapAfter(pend) ==
  everOverlap \/ (Len(pend) > 0 /\ \E t \in FlushSlots : Running(t))

\* A running flush is no longer alone once an ingest touches the queue.
Disturbed(fl) ==
  [s \in FlushSlots |->
     [fl[s] EXCEPT !.clean = IF fl[s].st = "run" THEN FALSE ELSE @]]


\* ------------------------------------------------ WorkingMemory.ingest
\* The dedup loop of ingest over the embedded candidates: a candidate is
\* skipped when it is similar (> 0.9) to a pending episode of the community
\* or to a non-archived durable episode of the community.
RECURSIVE IngestLoop(_, _, _, _)
IngestLoop(pend, eps, g, t) ==
  IF eps = <<>> THEN pend
  ELSE
    LET newEmbedding == Embed(Head(eps))
        isDuplicateInPending ==
          \E i \in 1..Len(pend) :
            /\ pend[i].groupId = g
            /\ Len(pend[i].embedding) > 0
            /\ IsDupEmbedding(newEmbedding, pend[i].embedding)
        isDuplicateInDb ==
          \E r \in ActiveRows(g) :
            /\ Len(episodic[r].embedding) > 0
            /\ IsDupEmbedding(newEmbedding, episodic[r].embedding)
    IN IF isDuplicateInPending \/ isDuplicateInDb
         THEN IngestLoop(pend, Tail(eps), g, t)
         ELSE IngestLoop(
                Append(pend, [groupId |-> g, summary |-> Head(eps),
                              embedding |-> newEmbedding, eventTime |-> t]),
                Tail(eps), g, t)

\* An end of ingest without the size test
IngestTail_NoSizeFlush(pend, g) ==
  /\ flushTimer' = "armed"
  /\ flush' = Disturbed(flush)
  /\ UNCHANGED everOverlap

\* The end of ingest: resetFlushTimer(), then the size-triggered flush.
IngestTail(pend, g) ==
  /\ flushTimer' = "armed"
  /\ IF Len(pend) >= maxPendingWrites
       THEN /\ FreeSlots # {}
            /\ flush' = StartedFlush(Disturbed(flush), pend, g)
            /\ everOverlap' = OverlapAfter(pend)
       ELSE /\ flush' = Disturbed(flush)
            /\ UNCHANGED everOverlap

EpisodeLists(g) ==
  UNION {[1..n -> SummariesOf(g)] : n \in EpisodeCounts}

\* ingest(groupId, result) up to its first await.  A result that is not
\* worth remembering returns at once; one without episodes goes straight
\* to the timer reset; otherwise the call awaits embedBatch.
IngestBegin(g, worthRemembering, hasEpisodes) ==
  /\ \A h \in Groups : ing[h].st = "idle"
  /\ IF ~worthRemembering
       THEN UNCHANGED <<now, flushTimer, flush, ing, everOverlap>>
       ELSE IF ~hasEpisodes
         THEN /\ IngestTail(pendingEpisodic, g)
              /\ UNCHANGED <<now, ing>>
         ELSE /\ offered < MaxCands
              /\ ing' = [ing EXCEPT ![g] = [st |-> "embed", now |-> now]]
              /\ now' = now + 1
              /\ UNCHANGED <<flushTimer, flush, everOverlap>>
  /\ UNCHANGED <<pendingEpisodic, episodic, flushOutcome, offered, fails>>

\* ingest resumes with the embeddings and the durable rows: dedup loop,
\* timer reset, size-triggered flush.  The candidate list eps of the call
\* is drawn here: nothing reads it before the embeddings arrive.
IngestResume(g, eps) ==
  /\ ing[g].st = "embed"
  /\ offered + Len(eps) <= MaxCands
  /\ offered' = offered + Len(eps)
  /\ LET pend == IngestLoop(pendingEpisodic, eps, g, ing[g].now)
     IN /\ pendingEpisodic' = pend
        /\ IngestTail(pend, g)
  /\ ing' = [ing EXCEPT ![g] = IdleIngest]
  /\ UNCHANGED <<now, episodic, flushOutcome, fails>>

\* embedBatch or the store read throws: the catch block logs, no candidate
\* is buffered; the timer reset and the size check still run.
IngestEmbedFail(g) ==
  /\ ing[g].st = "embed"
  /\ fails < MaxFails
  /\ fails' = fails + 1
  /\ IngestTail(pendingEpisodic, g)
  /\ ing' = [ing EXCEPT ![g] = IdleIngest]
  /\ UNCHANGED <<now, pendingEpisodic, episodic, flushOutcome, offered>>

\* ------------------------------------------------- WorkingMemory.flush
\* A row stamped with the time of the flush
EpisodicRow_FlushTime(ep, id) ==
  [id |-> id, groupId |-> ep.groupId, summary |-> ep.summary,
   embedding |-> ep.embedding, eventTime |-> now,
   archived |-> FALSE, accessCount |-> 0, distilled |-> FALSE]

\* (accessCount and distilled are columns of the build whose cleanup scores
\* retention; a row is created with accessCount 0 and distilled false)
EpisodicRow(ep, id) ==
  [id |-> id, groupId |-> ep.groupId, summary |-> ep.summary,
   embedding |-> ep.embedding, eventTime |-> ep.eventTime,
   archived |-> FALSE, accessCount |-> 0, distilled |-> FALSE]

\* The awaited create of a running flush succeeds; the for-of loop goes on
\* to the next element of its array, or ends and reassigns
\* this.pendingEpisodic = [].
FlushWriteOk(s) ==
  /\ Running(s)
  /\ LET arr == FlushArray(s)
         id == Len(episodic) + 1
         k == flush[s].idx + 1
     IN /\ episodic' = Append(episodic, EpisodicRow(arr[k], id))
        /\ IF k < Len(arr)
             THEN /\ flush' = [flush EXCEPT ![s].idx = k]
                  /\ UNCHANGED <<pendingEpisodic, flushOutcome>>
             ELSE /\ pendingEpisodic' = <<>>
                  /\ flushOutcome' = [result |-> "ok", clean |-> flush[s].clean]
                  /\ flush' =
                       [t \in FlushSlots |->
                          IF t = s
                            THEN IdleFlush
                          ELSE IF Running(t) /\ flush[t].live
                            THEN [flush[t] EXCEPT !.live = FALSE,
                                                  !.snap = pendingEpisodic]
                          ELSE flush[t]]
  /\ UNCHANGED <<now, flushTimer, ing, offered, fails, everOverlap>>

\* The awaited create throws: the catch block logs, the queue is kept.
\* A failure handler that resets the queue
FlushWriteFail_ClearsQueue(s) ==
  /\ Running(s)
  /\ fails < MaxFails
  /\ fails' = fails + 1
  /\ flush' = [t \in FlushSlots |->
                 IF t = s THEN IdleFlush
                 ELSE IF Running(t) /\ flush[t].live
                   THEN [flush[t] EXCEPT !.live = FALSE,
                                         !.snap = pendingEpisodic]
                   ELSE flush[t]]
  /\ flushOutcome' = [result |-> "caught", clean |-> flush[s].clean]
  /\ pendingEpisodic' = <<>>
  /\ UNCHANGED <<now, episodic, flushTimer, ing, offered, everOverlap>>

FlushWriteFail(s) ==
  /\ Running(s)
  /\ fails < MaxFails
  /\ fails' = fails + 1
  /\ flush' = [flush EXCEPT ![s] = IdleFlush]
  /\ flushOutcome' = [result |-> "caught", clean |-> flush[s].clean]
  /\ UNCHANGED <<now, pendingEpisodic, episodic, flushTimer, ing, offered,
                 everOverlap>>

\* The setTimeout callback of resetFlushTimer: () => this.flush()
TimerFire ==
  /\ flushTimer = "armed"
  /\ Len(pendingEpisodic) = 0 \/ FreeSlots # {}
  /\ flushTimer' = "fired"
  /\ flush' = StartedFlush(flush, pendingEpisodic, None)
  /\ everOverlap' = OverlapAfter(pendingEpisodic)
  /\ UNCHANGED <<now, pendingEpisodic, episodic, ing, flushOutcome, offered,
                 fails, otherVars>>

\* MemoryService.flushWorkingMemory()
ManualFlush ==
  /\ Len(pendingEpisodic) = 0 \/ FreeSlots # {}
  /\ flush' = StartedFlush(flush, pendingEpisodic, None)
  /\ everOverlap' = OverlapAfter(pendingEpisodic)
  /\ UNCHANGED <<now, pendingEpisodic, episodic, flushTimer, ing, flushOutcome,
                 offered, fails, otherVars>>

\* ------------------------------------------------- relational memory
\* Bounds of the relational model: the last day of the clock and the
\* largest interactionCount.
MaxDay == 60
MaxCount == 60

\* userObs.length: the observations of one person in one extraction
BatchSizes == {1, 15}

\* Days that pass between two calls
DaySteps == {5, 45}

Tiers == {"stranger", "acquaintance", "familiar", "close"}

downgradeMap ==
  [close |-> "familiar", familiar |-> "acquaintance",
   acquaintance |-> "stranger", stranger |-> "stranger"]

\* person-learning.ts computeClosenessTier; Date.now() is the clock
computeClosenessTier(total, lastInteraction, currentTier) ==
  LET daysSince == now - lastInteraction
  IN IF daysSince > 30 THEN downgradeMap[currentTier]
     ELSE IF total >= 50 THEN "close"
     ELSE IF total >= 15 THEN "familiar"
     ELSE IF total >= 3 THEN "acquaintance"
     ELSE "stranger"

\* WorkingMemory.computeClosenessTier; currentTier is always given
computeClosenessTierWM(total, recent, lastInteraction, currentTier) ==
  LET daysSince == now - lastInteraction
  IN IF daysSince > 30 THEN downgradeMap[currentTier]
     ELSE IF total >= 50 /\ recent >= 5 THEN "close"
     ELSE IF total >= 15 /\ recent >= 2 THEN "familiar"
     ELSE IF total >= 3 THEN "acquaintance"
     ELSE "stranger"

\* processPersonObservations, part B: the relational row of a person with
\* n observations in the extraction
UpdatedRelational(n) ==
  IF rel.exists
    THEN LET newCount == rel.interactionCount + n
             tier == computeClosenessTier(newCount, rel.lastInteraction,
                                          rel.closenessTier)
         IN [rel EXCEPT !.interactionCount = newCount,
                        !.lastInteraction = now,
                        !.closenessTier = tier]
    ELSE [NoRelational EXCEPT !.exists = TRUE,
                              !.interactionCount = n,
                              !.lastInteraction = now,
                              !.recentImpressionUpdatedAt = now]

\* The row WorkingMemory.upsertRelational leaves: updated, or created
UpsertedRelational ==
  IF rel.exists
    THEN LET newCount == rel.interactionCount + 1
             tier == computeClosenessTierWM(newCount,
                       rel.recentInteractionCount + 1,
                       rel.lastInteraction, rel.closenessTier)
         IN [rel EXCEPT !.interactionCount = newCount,
                        !.recentInteractionCount =
                           rel.recentInteractionCount + 1,
                        !.lastInteraction = now,
                        !.closenessTier = tier]
    ELSE [NoRelational EXCEPT !.exists = TRUE,
                              !.interactionCount = 1,
                              !.recentInteractionCount = 1,
                              !.lastInteraction = now,
                              !.recentImpressionUpdatedAt = now]

\* WorkingMemory.upsertRelational: one queued relational update is written
upsertRelational ==
  /\ relWriter = "working-memory"
  /\ rel.interactionCount + 1 <= MaxCount
  /\ rel' = UpsertedRelational
  /\ UNCHANGED <<now, wmVars, relWriter, distillation, cycleTier, semVars,
                 retVars, apiVars, svcVars,
                 extVars, lateVars>>

\* ------------- WorkingMemory of the build that queues relational updates
\* The most relational updates queued in a run
MaxRelUpdates == 2

\* A flush() call in flight, in its episodic loop or its relational loop
Busy(s) == flush[s].st \in {"run", "rel"}

\* The length of the array a flush iterates in its relational loop: the
\* current pendingRelUpdates while nobody has reassigned it (rels = -1),
\* the length of the array it started on otherwise
RelArrayLen(s) ==
  IF flush[s].rels < 0 THEN pendingRelUpdates ELSE flush[s].rels

\* flush() of this build: the early return when both queues are empty, or
\* the start of the episodic loop, or with no episode queued, of the
\* relational loop (rq is the number of queued relational updates)
StartedFlushWM(fl, pend, rq, by) ==
  IF Len(pend) = 0 /\ rq = 0 THEN fl
  ELSE [s \in FlushSlots |->
          IF s = PickSlot
            THEN [st |-> IF Len(pend) > 0 THEN "run" ELSE "rel",
                  idx |-> 0, live |-> TRUE, snap |-> <<>>,
                  by |-> by, rels |-> -1,
                  clean |-> \A t \in FlushSlots : ~Busy(t)]
            ELSE [fl[s] EXCEPT !.clean = IF Busy(s) THEN FALSE ELSE @]]

OverlapAfterWM(pend, rq) ==
  everOverlap \/ ((Len(pend) > 0 \/ rq > 0) /\ \E t \in FlushSlots : Busy(t))

\* The two assignments that end flush(): this.pendingEpisodic = [] and
\* this.pendingRelUpdates = []; a flush still iterating one of the old
\* arrays keeps it (a for-of loop takes its array when it starts)
FlushEndWM(s) ==
  /\ pendingEpisodic' = <<>>
  /\ pendingRelUpdates' = 0
  /\ flushOutcome' = [result |-> "ok", clean |-> flush[s].clean]
  /\ flush' =
       [t \in FlushSlots |->
          IF t = s THEN IdleFlush
          ELSE IF ~Busy(t) THEN flush[t]
          ELSE [flush[t] EXCEPT
                  !.live = IF Running(t) THEN FALSE ELSE @,
                  !.snap = IF Running(t) /\ flush[t].live
                             THEN pendingEpisodic ELSE @,
                  !.rels = IF flush[t].st = "rel" /\ @ < 0
                             THEN pendingRelUpdates ELSE @]]

\* The awaited create of the episodic loop returns: the loop goes on, or
\* ends and the relational loop starts (its first upsertRelational is
\* awaited), or with no relational update the flush ends
flushWriteOkWM(s) ==
  /\ relWriter = "working-memory"
  /\ Running(s)
  /\ LET arr == FlushArray(s)
         id == Len(episodic) + 1
         k == flush[s].idx + 1
     IN /\ episodic' = Append(episodic, EpisodicRow(arr[k], id))
        /\ IF k < Len(arr)
             THEN /\ flush' = [flush EXCEPT ![s].idx = k]
                  /\ UNCHANGED <<pendingEpisodic, pendingRelUpdates,
                                 flushOutcome>>
             ELSE IF RelArrayLen(s) > 0
               THEN /\ flush' = [flush EXCEPT ![s].st = "rel", ![s].idx = 0]
                    /\ UNCHANGED <<pendingEpisodic, pendingRelUpdates,
                                   flushOutcome>>
               ELSE FlushEndWM(s)
  /\ UNCHANGED <<now, flushTimer, ing, offered, fails, everOverlap, rel,
                 accepted>>

\* The awaited upsertRelational of the relational loop returns: the loop
\* goes on, or ends and flush() resets both queues
flushRelationalOk(s) ==
  /\ relWriter = "working-memory"
  /\ flush[s].st = "rel"
  /\ rel.interactionCount + 1 <= MaxCount
  /\ rel' = UpsertedRelational
  /\ LET k == flush[s].idx + 1
     IN IF k < RelArrayLen(s)
          THEN /\ flush' = [flush EXCEPT ![s].idx = k]
               /\ UNCHANGED <<pendingEpisodic, pendingRelUpdates,
                              flushOutcome>>
          ELSE FlushEndWM(s)
  /\ UNCHANGED <<now, episodic, flushTimer, ing, offered, fails,
                 everOverlap, accepted>>

\* The episodes an ingest has appended to the queue
Appended(pend) ==
  {pend[i] : i \in (Len(pendingEpisodic) + 1)..Len(pend)}

\* ingest of this build resumes with the embeddings and the durable rows:
\* dedup loop, the relational updates of the result are queued (r of
\* them), timer reset, size-triggered flush
ingestResumeWM(g, eps, r) ==
  /\ relWriter = "working-memory"
  /\ ing[g].st = "embed"
  /\ offered + Len(eps) <= MaxCands
  /\ offered' = offered + Len(eps)
  /\ pendingRelUpdates + r <= MaxRelUpdates
  /\ pendingRelUpdates' = pendingRelUpdates + r
  /\ LET pend == IngestLoop(pendingEpisodic, eps, g, ing[g].now)
     IN /\ pendingEpisodic' = pend
        /\ accepted' = accepted \cup Appended(pend)
        /\ flushTimer' = "armed"
        /\ IF Len(pend) >= maxPendingWrites
             THEN /\ FreeSlots # {}
                  /\ flush' = StartedFlushWM(Disturbed(flush), pend,
                                             pendingRelUpdates + r, g)
                  /\ everOverlap' = OverlapAfterWM(pend, pendingRelUpdates + r)
             ELSE /\ flush' = Disturbed(flush)
                  /\ UNCHANGED everOverlap
  /\ ing' = [ing EXCEPT ![g] = IdleIngest]
  /\ UNCHANGED <<now, episodic, flushOutcome, fails, rel>>

\* The setTimeout callback of resetFlushTimer in this build
timerFireWM ==
  /\ relWriter = "working-memory"
  /\ flushTimer = "armed"
  /\ (Len(pendingEpisodic) = 0 /\ pendingRelUpdates = 0) \/ FreeSlots # {}
  /\ flushTimer' = "fired"
  /\ flush' = StartedFlushWM(flush, pendingEpisodic, pendingRelUpdates, None)
  /\ everOverlap' = OverlapAfterWM(pendingEpisodic, pendingRelUpdates)
  /\ UNCHANGED <<now, pendingEpisodic, episodic, ing, flushOutcome, offered,
                 fails, rel, pendingRelUpdates, accepted>>

\* Time passes with no call (a silence gap when it is long)
DaysPass(d) ==
  /\ now + d <= MaxDay
  /\ now' = now + d
  /\ UNCHANGED <<wmVars, relVars, semVars, retVars, apiVars, svcVars,
                 extVars, lateVars>>

\* The distillation timer fires: runDistillation() starts
DistillationStart ==
  /\ distillation = "idle"
  /\ distillation' = "running"
  /\ cycleTier' = IF rel.exists THEN rel.closenessTier ELSE None
  /\ UNCHANGED <<now, wmVars, rel, relWriter, semVars, retVars,
                 apiVars, svcVars,
                 extVars, lateVars>>

\* --------------------------------------------------- semantic facts
\* Bounds of the semantic model: rows of 'mio.semantic', entries of one
\* model result, writes to the table.
MaxFacts == 3
MaxItems == 2
MaxSemWrites == 3

\* Confidence and importance are counted in tenths.
\* The confidence values a model output or an observation carries: below
\* the range and above it (values inside it come from the person facts,
\* the bumps and the clamps).
ModelConfidences == {-5, 15}
Importances == {8}

\* The person the model output speaks about
Subjects == {"u1"}

\* The contents of observations, and those of the model's facts (the
\* second is not similar to the first)
ObservedContents == {1}
DistilledContents == {1, 3}

\* supersededBy: null
Null == 0

DEDUP_THRESHOLD_NUM == 17
DEDUP_THRESHOLD_DEN == 20
MAX_CONFIDENCE == 8
CONFIDENCE_BUMP == 1

Min(a, b) == IF a < b THEN a ELSE b
Max(a, b) == IF a > b THEN a ELSE b

\* Math.max(0, Math.min(1, c))
Clamp01(c) == Max(0, Min(10, c))

\* A created 'mio.semantic' row
SemanticRow(id, subject, factType, content, confidence) ==
  [id |-> id, subject |-> subject, factType |-> factType,
   content |-> content, embedding |-> Embed(content),
   confidence |-> confidence, supersededBy |-> Null, lastConfirmed |-> now]

\* A filter that lets every fact pass
NotSuperseded_NoFilter(f) == TRUE

\* .filter(f => f.supersededBy === null || f.supersededBy === undefined)
NotSuperseded(f) == f.supersededBy = Null

\* database.get('mio.semantic', {groupId, subject})
FactsOf(subject) == SelectSeq(semantic, LAMBDA f : f.subject = subject)

\* The first of the indices an array search accepts, else 0
FirstIdx(matches) ==
  IF matches = {} THEN 0
  ELSE CHOOSE i \in matches : \A j \in matches : i <= j

\* cosineSimilarity(embedding, fact.embedding) >= DEDUP_THRESHOLD
IsDupObservation(embedding, fact) ==
  /\ Len(fact.embedding) > 0
  /\ CosCmp(embedding, fact.embedding,
            DEDUP_THRESHOLD_NUM, DEDUP_THRESHOLD_DEN) >= 0

\* confidence of a new person fact, from the observation's importance
ConfidenceOfImportance(o) ==
  IF o.importance >= 7 THEN 6 ELSE IF o.importance >= 4 THEN 5 ELSE 4

\* The new row of an observation: a person fact (writer "person") takes
\* its confidence from the importance, a cultural fact (writer "culture",
\* observations of type meme) from the observation.
ObservedFact(writer, o, id) ==
  IF writer = "person"
    THEN SemanticRow(id, "u1", "trait", o.content, ConfidenceOfImportance(o))
    ELSE SemanticRow(id, "group", "inside_joke", o.content, o.confidence)

\* The observation loop of processPersonObservations (part A) and of
\* processCulturalObservations, from observation k on: rows is the table,
\* active the array loaded before the loop, whose elements carry the
\* bumped confidence.
RECURSIVE ObservationLoop(_, _, _, _, _)
ObservationLoop(rows, active, obs, k, writer) ==
  IF k > Len(obs) THEN rows
  ELSE LET embedding == Embed(obs[k].content)
           m == FirstIdx({i \in 1..Len(active) :
                           IsDupObservation(embedding, active[i])})
       IN IF m # 0
            THEN LET newConfidence ==
                       Min(MAX_CONFIDENCE,
                           active[m].confidence + CONFIDENCE_BUMP)
                     id == active[m].id
                 IN ObservationLoop(
                      [rows EXCEPT ![id].confidence = newConfidence,
                                   ![id].lastConfirmed = now],
                      [active EXCEPT ![m].confidence = newConfidence],
                      obs, k + 1, writer)
            ELSE ObservationLoop(
                   Append(rows, ObservedFact(writer, obs[k], Len(rows) + 1)),
                   active, obs, k + 1, writer)

\* processPersonObservations for the observations obs of one person;
\* embedOk tells whether embedBatch returned (otherwise every observation
\* is skipped in part A).
processPersonObservations(obs, embedOk) ==
  /\ relWriter = "person-learning"
  /\ rel.interactionCount + Len(obs) <= MaxCount
  /\ IF embedOk
       THEN /\ semWrites + Len(obs) <= MaxSemWrites
            /\ semWrites' = semWrites + Len(obs)
            /\ semantic' =
                 ObservationLoop(semantic,
                                 SelectSeq(FactsOf("u1"), NotSuperseded),
                                 obs, 1, "person")
            /\ Len(semantic') <= MaxFacts
       ELSE UNCHANGED <<semantic, semWrites>>
  /\ rel' = UpdatedRelational(Len(obs))
  /\ UNCHANGED <<now, wmVars, relWriter, distillation, cycleTier, maintain,
                 retVars, apiVars, svcVars,
                 extVars, lateVars>>

\* processCulturalObservations for the observations obs (all of type meme)
processCulturalObservations(obs) ==
  /\ Len(obs) > 0
  /\ semWrites + Len(obs) <= MaxSemWrites
  /\ semWrites' = semWrites + Len(obs)
  /\ semantic' =
       ObservationLoop(semantic,
                       SelectSeq(FactsOf("group"), NotSuperseded),
                       obs, 1, "culture")
  /\ Len(semantic') <= MaxFacts
  /\ UNCHANGED <<now, wmVars, relVars, maintain, retVars, apiVars, svcVars,
                 extVars, lateVars>>

\* ---------------------------------- DistillationPipeline, semantic stage
\* The episodes of the community in the 7-day window of maintenance
recentEpisodes ==
  {i \in 1..Len(episodic) :
     /\ episodic[i].groupId = "g1"
     /\ ~episodic[i].archived
     /\ episodic[i].eventTime >= now - 7}

PhaseRank ==
  [idle |-> 0, new |-> 1, confirmed |-> 2, evolved |-> 3, decayed |-> 4,
   done |-> 5]

\* The call is in the loop over the entries of kind, or can enter it: the
\* four loops run in the order new, confirmed, evolved, decayed.
CanProcess(kind) ==
  /\ maintain.phase \notin {"idle", "done"}
  /\ PhaseRank[maintain.phase] <= PhaseRank[kind]
  /\ maintain.items < MaxItems

Processed(kind) ==
  [maintain EXCEPT !.phase = kind, !.items = maintain.items + 1]

\* existingFacts.find(f => f.id === id): its index in the array, else 0
FindExisting(id) ==
  FirstIdx({i \in 1..Len(maintain.existingFacts) :
              maintain.existingFacts[i].id = id})

\* A maintenance that starts when the impressions are written
MaintainLoad_AfterImpressions ==
  /\ distillation = "cleanup"
  /\ maintain.phase = "idle"
  /\ recentEpisodes # {}
  /\ maintain' = [phase |-> "new",
                  existingFacts |-> SelectSeq(semantic, NotSuperseded),
                  items |-> 0, invalid |-> FALSE]
  /\ UNCHANGED <<now, wmVars, relVars, semantic, semWrites, retVars,
                 apiVars, svcVars,
                 extVars, lateVars>>

\* maintainSemanticFacts loads the recent episodes and the existing facts
\* and has the model's result parsed
MaintainLoad ==
  /\ distillation = "running"
  /\ maintain.phase = "idle"
  /\ recentEpisodes # {}
  /\ maintain' = [phase |-> "new",
                  existingFacts |-> SelectSeq(semantic, NotSuperseded),
                  items |-> 0, invalid |-> FALSE]
  /\ UNCHANGED <<now, wmVars, relVars, semantic, semWrites, retVars,
                 apiVars, svcVars,
                 extVars, lateVars>>



\* The similarity test with a strict comparison
SimilarFact_Strict(f, subject, factType, embedding) ==
  /\ f.subject = subject
  /\ f.factType = factType
  /\ Len(f.embedding) > 0
  /\ CosCmp(embedding, f.embedding, 9, 10) = 1

\* f.subject === fact.subject && f.factType === fact.factType &&
\* f.embedding?.length && cosineSimilarity(embedding, f.embedding) >= 0.9
SimilarFact(f, subject, factType, embedding) ==
  /\ f.subject = subject
  /\ f.factType = factType
  /\ Len(f.embedding) > 0
  /\ CosCmp(embedding, f.embedding, 9, 10) >= 0

\* One entry of result.newFacts; factType is fact_type || "trait"
MaintainNew(subject, factType, content, confidence) ==
  /\ CanProcess("new")
  /\ semWrites < MaxSemWrites
  /\ semWrites' = semWrites + 1
  /\ maintain' = Processed("new")
  /\ lastNew' = [subject |-> subject, factType |-> factType,
                  content |-> content]
  /\ LET embedding == Embed(content)
         m == FirstIdx({i \in 1..Len(maintain.existingFacts) :
                SimilarFact(maintain.existingFacts[i], subject, factType,
                            embedding)})
     IN IF Len(embedding) > 0 /\ m # 0
          THEN LET similar == maintain.existingFacts[m]
               IN semantic' =
                    [semantic EXCEPT
                       ![similar.id].confidence =
                          Min(10, similar.confidence + 1),
                       ![similar.id].lastConfirmed = now]
          ELSE /\ Len(semantic) < MaxFacts
               /\ semantic' =
                    Append(semantic,
                           SemanticRow(Len(semantic) + 1, subject, factType,
                                       content, Clamp01(confidence)))
  /\ UNCHANGED <<now, wmVars, relVars, retVars, apiVars, svcVars,
                 extVars, parseVars, coreVars, vibeVars, schedVars,
                 relQueueVars>>

\* One entry of result.confirmedFacts
MaintainConfirmed(id, newConfidence) ==
  /\ CanProcess("confirmed")
  /\ maintain' = Processed("confirmed")
  /\ IF FindExisting(id) # 0
       THEN /\ semWrites < MaxSemWrites
            /\ semWrites' = semWrites + 1
            /\ semantic' =
                 [semantic EXCEPT ![id].confidence = Clamp01(newConfidence),
                                  ![id].lastConfirmed = now]
       ELSE UNCHANGED <<semantic, semWrites>>
  /\ UNCHANGED <<now, wmVars, relVars, retVars, apiVars, svcVars,
                 extVars, lateVars>>

\* An entry of result.evolvedFacts that marks the old fact with its own id
MaintainEvolved_SelfReference(oldFactId, newContent, newConfidence) ==
  /\ CanProcess("evolved")
  /\ maintain' = Processed("evolved")
  /\ IF FindExisting(oldFactId) # 0
       THEN LET oldFact == maintain.existingFacts[FindExisting(oldFactId)]
                newFact == SemanticRow(Len(semantic) + 1, oldFact.subject,
                                       oldFact.factType, newContent,
                                       Clamp01(newConfidence))
            IN /\ semWrites < MaxSemWrites
               /\ Len(semantic) < MaxFacts
               /\ semWrites' = semWrites + 1
               /\ semantic' =
                    [Append(semantic, newFact) EXCEPT
                       ![oldFactId].supersededBy = oldFactId]
       ELSE UNCHANGED <<semantic, semWrites>>
  /\ UNCHANGED <<now, wmVars, relVars, retVars, apiVars, svcVars,
                 extVars, lateVars>>

\* One entry of result.evolvedFacts: the new fact is created, then the old
\* one is marked as superseded by it
MaintainEvolved(oldFactId, newContent, newConfidence) ==
  /\ CanProcess("evolved")
  /\ maintain' = Processed("evolved")
  /\ IF FindExisting(oldFactId) # 0
       THEN LET oldFact == maintain.existingFacts[FindExisting(oldFactId)]
                newFact == SemanticRow(Len(semantic) + 1, oldFact.subject,
                                       oldFact.factType, newContent,
                                       Clamp01(newConfidence))
            IN /\ semWrites < MaxSemWrites
               /\ Len(semantic) < MaxFacts
               /\ semWrites' = semWrites + 1
               /\ semantic' =
                    [Append(semantic, newFact) EXCEPT
                       ![oldFactId].supersededBy = newFact.id]
       ELSE UNCHANGED <<semantic, semWrites>>
  /\ UNCHANGED <<now, wmVars, relVars, retVars, apiVars, svcVars,
                 extVars, lateVars>>

\* One entry of result.decayedFacts
MaintainDecayed(id, newConfidence) ==
  /\ CanProcess("decayed")
  /\ maintain' = Processed("decayed")
  /\ IF FindExisting(id) # 0
       THEN /\ semWrites < MaxSemWrites
            /\ semWrites' = semWrites + 1
            /\ semantic' =
                 [semantic EXCEPT ![id].confidence = Clamp01(newConfidence)]
       ELSE UNCHANGED <<semantic, semWrites>>
  /\ UNCHANGED <<now, wmVars, relVars, retVars, apiVars, svcVars,
                 extVars, lateVars>>

\* One entry of result.confirmedFacts or result.decayedFacts that carries
\* no id: existingFacts.find(f => f.id === undefined) finds no fact, the
\* entry is passed over and the loop goes on
MaintainMalformed(kind) ==
  /\ kind \in {"confirmed", "decayed"}
  /\ CanProcess(kind)
  /\ maintain' = [Processed(kind) EXCEPT !.invalid = TRUE]
  /\ UNCHANGED <<now, wmVars, relVars, semantic, semWrites, retVars,
                 apiVars, svcVars,
                 extVars, lateVars>>

\* The loops are over: maintainSemanticFacts returns
MaintainEnd ==
  /\ maintain.phase \notin {"idle", "done"}
  /\ maintain' = [phase |-> "done", existingFacts |-> <<>>, items |-> 0,
                  invalid |-> FALSE]
  /\ UNCHANGED <<now, wmVars, relVars, semantic, semWrites, retVars,
                 apiVars, svcVars,
                 extVars, lateVars>>

\* ------------------------------- DistillationPipeline, impression stage
Ids(facts) == {facts[i].id : i \in 1..Len(facts)}

\* The k facts of highest confidence: sort by confidence descending (the
\* sort is stable), slice(0, k)
TopByConfidence(facts, k) ==
  LET S == {facts[i] : i \in 1..Len(facts)}
  IN {f \in S :
        Cardinality({g \in S : \/ g.confidence > f.confidence
                               \/ /\ g.confidence = f.confidence
                                  /\ g.id < f.id}) < k}

\* updateRecentImpression: the facts given to the model
recentFacts(userId) ==
  SelectSeq(FactsOf(userId),
            LAMBDA f : NotSuperseded(f) /\ f.lastConfirmed >= now - 7)

\* updateCoreImpression: the facts given to the model
coreFacts(userId) ==
  TopByConfidence(SelectSeq(FactsOf(userId), NotSuperseded), 15)

\* DistillationPipeline.runForGroup after semantic maintenance (which has
\* returned at once when there is no recent episode or when the model's
\* answer does not parse): a person with an
\* interaction in the last 7 days, and recent facts, gets the recent
\* impression rewritten when the model's answer parses (written); cleanup
\* follows.
runForGroup(written) ==
  /\ distillation = "running"
  /\ maintain.phase \in {"idle", "done"}
  /\ distillation' = "cleanup"
  /\ maintain' = IdleMaintain
  /\ LET sevenDaysAgo == now - 7
     IN IF rel.exists /\ ~(rel.lastInteraction < sevenDaysAgo)
          THEN IF Len(recentFacts("u1")) # 0 /\ written
                 THEN rel' = [rel EXCEPT !.recentImpressionUpdatedAt = now]
                 ELSE rel' = rel
          ELSE rel' = rel
  /\ UNCHANGED <<now, wmVars, relWriter, cycleTier, semantic, semWrites,
                 retVars, apiVars, svcVars,
                 extVars, lateVars>>

\* A stage of runForGroup throws (the store read of the backfill, the model
\* call or a store write of semantic maintenance or of an impression):
\* nothing between the stage and run() catches, run()'s catch block logs
\* and the run is over; the writes made so far stay.
runCatch ==
  /\ distillation = "running"
  /\ distillation' = "idle"
  /\ cycleTier' = None
  /\ maintain' = IdleMaintain
  /\ UNCHANGED <<now, wmVars, rel, relWriter, semantic, semWrites,
                 retVars, apiVars, svcVars,
                 extVars, lateVars>>

\* ------------------------------------------------- ContextAssembler
\* buildFactsLine: the facts of the "you remember" line of a person
buildFactsLine(userId) ==
  TopByConfidence(
    SelectSeq(FactsOf(userId),
              LAMBDA f : /\ NotSuperseded(f)
                         /\ f.confidence >= 3
                         /\ f.factType # "preferred_name"),
    3)

\* buildGroupFacts: the community's facts appended to the memories
buildGroupFacts ==
  TopByConfidence(
    SelectSeq(FactsOf("group"),
              LAMBDA f : NotSuperseded(f) /\ f.confidence >= 5),
    3)

\* MemoryService.getMemoryContext for the person: the facts line is built
\* only for a person with a relational row
getMemoryContext ==
  [user |-> IF rel.exists THEN {f.id : f \in buildFactsLine("u1")} ELSE {},
   group |-> {f.id : f \in buildGroupFacts}]

\* ------------------------------------------- DistillationPipeline.cleanup
\* config.activePoolLimit (default 200), scaled down with the model
activePoolLimit == 2

\* A capacity pass that archives one row more than the excess
CleanupArchives_OneMore ==
  LET twentyOneDaysAgo == now - 21
      activeEpisodic == {i \in 1..Len(episodic) : ~episodic[i].archived}
      expired == {i \in activeEpisodic :
                    episodic[i].eventTime < twentyOneDaysAgo}
      kept == activeEpisodic \ expired
      Earlier(j, i) ==
        \/ episodic[j].eventTime < episodic[i].eventTime
        \/ episodic[j].eventTime = episodic[i].eventTime /\ j < i
      toEvict == Cardinality(kept) - activePoolLimit + 1
      evicted == IF Cardinality(kept) > activePoolLimit
                   THEN {i \in kept :
                           Cardinality({j \in kept : Earlier(j, i)}) < toEvict}
                   ELSE {}
  IN expired \cup evicted

\* The rows cleanup archives: the active rows with eventTime older than 21
\* days, and, when more than activePoolLimit rows remain, the oldest of the
\* remaining ones (sort by eventTime, stable in the order of the store).
CleanupArchives ==
  LET twentyOneDaysAgo == now - 21
      activeEpisodic == {i \in 1..Len(episodic) : ~episodic[i].archived}
      expired == {i \in activeEpisodic :
                    episodic[i].eventTime < twentyOneDaysAgo}
      remaining == Cardinality(activeEpisodic) - Cardinality(expired)
      kept == activeEpisodic \ expired
      Earlier(j, i) ==
        \/ episodic[j].eventTime < episodic[i].eventTime
        \/ episodic[j].eventTime = episodic[i].eventTime /\ j < i
      toEvict == remaining - activePoolLimit
      evicted == IF remaining > activePoolLimit
                   THEN {i \in kept :
                           Cardinality({j \in kept : Earlier(j, i)}) < toEvict}
                   ELSE {}
  IN expired \cup evicted

\* A cleanup that also drops the vector of a row it archives
cleanup_DropsVector ==
  /\ distillation = "cleanup"
  /\ distillation' = "idle"
  /\ cycleTier' = None
  /\ episodic' = [i \in 1..Len(episodic) |->
                    IF i \in CleanupArchives
                      THEN [episodic[i] EXCEPT !.archived = TRUE,
                                               !.embedding = <<>>]
                      ELSE episodic[i]]
  /\ UNCHANGED <<now, pendingEpisodic, flushTimer, flush, ing, flushOutcome,
                 offered, fails, everOverlap, rel, relWriter, semVars,
                 retVars, apiVars, svcVars,
                 extVars, lateVars>>

\* The last stage of run(): cleanup over all communities; the run ends and
\* the next one is scheduled.
cleanup ==
  /\ distillation = "cleanup"
  /\ distillation' = "idle"
  /\ cycleTier' = None
  /\ episodic' = [i \in 1..Len(episodic) |->
                    IF i \in CleanupArchives
                      THEN [episodic[i] EXCEPT !.archived = TRUE]
                      ELSE episodic[i]]
  /\ UNCHANGED <<now, pendingEpisodic, flushTimer, flush, ing, flushOutcome,
                 offered, fails, everOverlap, rel, relWriter, semVars,
                 retVars, apiVars, svcVars,
                 extVars, lateVars>>

\* stats of the provider: rows counted as active and as archived
episodicStats ==
  [active |-> Cardinality({i \in 1..Len(episodic) : ~episodic[i].archived}),
   archived |-> Cardinality({i \in 1..Len(episodic) : episodic[i].archived})]

\* ------------------------------------------- EpisodicRetriever.retrieve
\* The query texts (a text is named by the summary it reads like), topK
\* values and the importance and tags extraction gave each episode.
Queries == {1, 3}
TopKs == {1, 5}
importance(summary) == CASE summary = 1 -> 8 [] summary = 2 -> 5 [] OTHER -> 3
tags(summary) == IF summary = 3 THEN {3} ELSE {}

\* queryLower.includes(tag.toLowerCase())
Includes(recentText, tag) == recentText = tag

\* cosineSimilarity(a, b) * 400: every vector of Embed has norm 20
Similarity(a, b) ==
  IF Len(a) # Len(b) \/ Len(a) = 0 THEN 0 ELSE Dot(a, b)

\* Math.pow(0.5, daysSince / 7) * 1000, to three decimals
DecayMilli(daysSince) ==
  LET table == <<1000, 906, 820, 743, 673, 610, 552>>
  IN table[(daysSince % 7) + 1] \div (2 ^ (daysSince \div 7))

\* score * 40000 =
\*   (similarity * 0.5 + timeDecay * 0.2 + importance * 0.1 + tagBoost * 0.2)
\*   * 40000, with tagBoost 0.15 and importance in tenths
Score(queryEmbedding, recentText, ep) ==
  LET tagBoost == IF \E tag \in tags(ep.summary) : Includes(recentText, tag)
                    THEN 1200 ELSE 0
  IN 50 * Similarity(queryEmbedding, ep.embedding)
       + 8 * DecayMilli(now - ep.eventTime)
       + 400 * importance(ep.summary)
       + tagBoost

\* A time range covering an event time with >
SkipsCovered_Later(chatHistoryStart, eventTime) ==
  chatHistoryStart # 0 /\ eventTime > chatHistoryStart

\* chatHistoryStart && eventTime >= chatHistoryStart: the memory is in the
\* time range the chat history covers (undefined and 0 are both falsy)
SkipsCovered(chatHistoryStart, eventTime) ==
  chatHistoryStart # 0 /\ eventTime >= chatHistoryStart

\* One scored candidate.  groupId and id (0 for a pending episode) tell
\* where the candidate was read from; the returned memory carries neither.
Candidate(queryEmbedding, recentText, ep, id) ==
  [summary |-> ep.summary, eventTime |-> ep.eventTime,
   importance |-> importance(ep.summary),
   score |-> Score(queryEmbedding, recentText, ep),
   groupId |-> ep.groupId, id |-> id]

\* The candidates of one retrieve, durable rows first
Candidates(groupId, recentText, chatHistoryStart) ==
  LET queryEmbedding == Embed(recentText)
      Scored(ep) == /\ ~SkipsCovered(chatHistoryStart, ep.eventTime)
                    /\ Len(ep.embedding) > 0
      dbRows == SelectSeq(episodic,
                  LAMBDA r : r.groupId = groupId /\ ~r.archived)
      rows == SelectSeq(dbRows, Scored)
      pending == SelectSeq(getPendingEpisodic(groupId), Scored)
  IN [i \in 1..Len(rows) |->
        Candidate(queryEmbedding, recentText, rows[i], rows[i].id)]
     \o [i \in 1..Len(pending) |->
        Candidate(queryEmbedding, recentText, pending[i], 0)]

\* No sort: the candidates in the order they were scored
SortByScore_Unsorted(c) == c

\* candidates.sort((a, b) => b.score - a.score): descending, stable
SortByScore(c) ==
  LET Before(j, i) == \/ c[j].score > c[i].score
                      \/ c[j].score = c[i].score /\ j < i
  IN [k \in 1..Len(c) |->
        c[CHOOSE i \in 1..Len(c) :
            Cardinality({j \in 1..Len(c) : Before(j, i)}) = k - 1]]

\* EpisodicRetriever.retrieve: [] when the query cannot be embedded, else
\* the topK best candidates.  Nothing but the call's record changes.
retrieve(groupId, recentText, topK, chatHistoryStart, embedOk) ==
  /\ retrieved = NoRetrieve
  /\ LET sorted == SortByScore(Candidates(groupId, recentText,
                                          chatHistoryStart))
         results == IF embedOk
                      THEN SubSeq(sorted, 1, Min(topK, Len(sorted)))
                      ELSE <<>>
     IN retrieved' = [groupId |-> groupId,
                      chatHistoryStart |-> chatHistoryStart,
                      results |-> results]
  /\ UNCHANGED <<now, wmVars, relVars, semVars, accessUpdates, apiVars,
                 svcVars,
                 extVars, lateVars>>

\* getMemoryContext hands the memories to ContextAssembler.assemble and
\* returns the context: the call is over.
assemble ==
  /\ retrieved # NoRetrieve
  /\ retrieved' = NoRetrieve
  /\ UNCHANGED <<now, wmVars, relVars, semVars, accessUpdates, apiVars,
                 svcVars,
                 extVars, lateVars>>

\* ------------------- EpisodicRetriever.retrieve of the build that counts
\* accesses: no tag boost, weights 0.6, 0.3 and 0.1 (score * 40000)
ScoreCounting(queryEmbedding, c) ==
  60 * Similarity(queryEmbedding, Embed(c.summary))
    + 12 * DecayMilli(now - c.eventTime)
    + 400 * c.importance

CandidatesCounting(groupId, recentText, chatHistoryStart) ==
  LET c == Candidates(groupId, recentText, chatHistoryStart)
  IN [i \in 1..Len(c) |->
        [c[i] EXCEPT !.score = ScoreCounting(Embed(recentText), c[i])]]

\* A retrieve that awaits the counting of each returned row
retrieveCounted(groupId, recentText, topK, chatHistoryStart, embedOk) ==
  /\ retrieved = NoRetrieve
  /\ relWriter = "working-memory"
  /\ LET sorted == SortByScore(CandidatesCounting(groupId, recentText,
                                                  chatHistoryStart))
         results == IF embedOk
                      THEN SubSeq(sorted, 1, Min(topK, Len(sorted)))
                      ELSE <<>>
         counted == {results[k].id : k \in 1..Len(results)}
     IN /\ retrieved' = [groupId |-> groupId,
                         chatHistoryStart |-> chatHistoryStart,
                         results |-> results]
        /\ episodic' = [i \in 1..Len(episodic) |->
                          IF i \in counted
                            THEN [episodic[i] EXCEPT !.accessCount = @ + 1]
                            ELSE episodic[i]]
  /\ UNCHANGED <<now, pendingEpisodic, flushTimer, flush, ing, flushOutcome,
                 offered, fails, everOverlap, relVars, semVars,
                 accessUpdates, apiVars, svcVars,
                 extVars, lateVars>>

\* retrieve: [] when the query cannot be embedded (nothing is counted
\* then), else the topK best candidates; updateAccessCounts is called with
\* them and not awaited.
retrieveCounting(groupId, recentText, topK, chatHistoryStart, embedOk) ==
  /\ retrieved = NoRetrieve
  /\ relWriter = "working-memory"
  /\ LET sorted == SortByScore(CandidatesCounting(groupId, recentText,
                                                  chatHistoryStart))
         results == SubSeq(sorted, 1, Min(topK, Len(sorted)))
     IN IF embedOk
          THEN /\ retrieved' = [groupId |-> groupId,
                                chatHistoryStart |-> chatHistoryStart,
                                results |-> results]
               /\ accessUpdates' =
                    [accessUpdates EXCEPT !.todo = @ \o results]
          ELSE /\ retrieved' = [groupId |-> groupId,
                                chatHistoryStart |-> chatHistoryStart,
                                results |-> <<>>]
               /\ UNCHANGED accessUpdates
  /\ UNCHANGED <<now, wmVars, relVars, semVars, apiVars, svcVars,
                 extVars, lateVars>>

\* database.get('mio.episodic', {groupId, summary, eventTime}): the rows
\* matching a returned memory, archived or not
MatchingRows(mem) ==
  {i \in 1..Len(episodic) :
     /\ episodic[i].groupId = mem.groupId
     /\ episodic[i].summary = mem.summary
     /\ episodic[i].eventTime = mem.eventTime}

\* updateAccessCounts: the get for the next memory resolves; without a
\* matching row the loop goes on, else rows[0] is kept for the set.
updateAccessGet ==
  /\ accessUpdates.todo # <<>>
  /\ accessUpdates.read = NoRead
  /\ LET rows == MatchingRows(Head(accessUpdates.todo))
     IN IF rows = {}
          THEN accessUpdates' =
                 [accessUpdates EXCEPT !.todo = Tail(@)]
          ELSE LET first == CHOOSE i \in rows : \A j \in rows : i <= j
               IN accessUpdates' =
                    [accessUpdates EXCEPT
                       !.read = [id |-> first,
                                 accessCount |-> episodic[first].accessCount]]
  /\ UNCHANGED <<now, wmVars, relVars, semVars, retrieved, apiVars, svcVars,
                 extVars, lateVars>>

\* updateAccessCounts: the set resolves, the row has the count that was
\* read plus one (and lastAccessed, which nothing reads); the loop goes on.
updateAccessSet ==
  /\ accessUpdates.read # NoRead
  /\ episodic' = [episodic EXCEPT
                    ![accessUpdates.read.id].accessCount =
                       accessUpdates.read.accessCount + 1]
  /\ accessUpdates' = [todo |-> Tail(accessUpdates.todo), read |-> NoRead]
  /\ UNCHANGED <<now, pendingEpisodic, flushTimer, flush, ing, flushOutcome,
                 offered, fails, everOverlap, relVars, semVars, retrieved,
                 apiVars, svcVars,
                 extVars, lateVars>>

\* updateAccessCounts: the get or the set throws; the call rejects,
\* .catch(() => {}) drops the error and the remaining memories.
updateAccessFail ==
  /\ accessUpdates.todo # <<>>
  /\ fails < MaxFails
  /\ fails' = fails + 1
  /\ accessUpdates' = NoAccessUpdates
  /\ UNCHANGED <<now, pendingEpisodic, episodic, flushTimer, flush, ing,
                 flushOutcome, offered, everOverlap, relVars, semVars,
                 retrieved, apiVars, svcVars,
                 extVars, lateVars>>

\* ---------------------- DistillationPipeline.cleanup, scoring retention
\* A recency that doubles every 14 days
RecencyMilli_Doubling(daysSince) ==
  LET table == <<1000, 1050, 1104, 1160, 1219, 1281, 1346, 1414, 1486, 1561,
                 1641, 1724, 1811, 1903>>
  IN table[(daysSince % 14) + 1] * (2 ^ (daysSince \div 14))

\* Math.pow(0.5, daysSince / 14) * 1000, to three decimals
RecencyMilli(daysSince) ==
  LET table == <<1000, 952, 906, 862, 820, 781, 743, 707, 673, 640, 610,
                 580, 552, 525>>
  IN table[(daysSince % 14) + 1] \div (2 ^ (daysSince \div 14))

\* retention * 100000 =
\*   (importance * recency + Math.min(accessCount * 0.05, 0.3)) * 100000,
\* times 0.6 when the episode is distilled; importance in tenths
Retention(ep) ==
  LET recency == RecencyMilli(now - ep.eventTime)
      accessBonus == Min(ep.accessCount * 500, 3000)
      retention == importance(ep.summary) * recency + accessBonus
  IN IF ep.distilled THEN retention * 6 ELSE retention * 10

\* if (retention < 0.1): the rows the retention pass archives
LowRetention ==
  {i \in 1..Len(episodic) :
     ~episodic[i].archived /\ Retention(episodic[i]) < 10000}

\* The capacity pass: when more than activePoolLimit rows remain, the
\* rows with retention >= 0.1 are sorted by retention, ascending (stable in
\* the order of the store), and the first toEvict of them are archived.
EvictedByRetention ==
  LET activeEpisodic == {i \in 1..Len(episodic) : ~episodic[i].archived}
      scored == activeEpisodic \ LowRetention
      remaining == Cardinality(activeEpisodic) - Cardinality(LowRetention)
      toEvict == remaining - activePoolLimit
      Before(j, i) ==
        \/ Retention(episodic[j]) < Retention(episodic[i])
        \/ Retention(episodic[j]) = Retention(episodic[i]) /\ j < i
  IN IF remaining > activePoolLimit
       THEN {i \in scored :
               Cardinality({j \in scored : Before(j, i)}) < toEvict}
       ELSE {}

\* cleanup of the build that scores retention (the build whose working
\* memory writes the relational row): the last stage of its run().  The
\* consumed significant events it drops first are no part of this model.
cleanupByRetention ==
  /\ distillation = "cleanup"
  /\ relWriter = "working-memory"
  /\ distillation' = "idle"
  /\ cycleTier' = None
  /\ episodic' = [i \in 1..Len(episodic) |->
                    IF i \in LowRetention \cup EvictedByRetention
                      THEN [episodic[i] EXCEPT !.archived = TRUE]
                      ELSE episodic[i]]
  /\ UNCHANGED <<now, pendingEpisodic, flushTimer, flush, ing, flushOutcome,
                 offered, fails, everOverlap, rel, relWriter, semVars,
                 retVars, apiVars, svcVars,
                 extVars, lateVars>>

\* ------------------------------ triggerMemoryExtraction, MemoryService.record
\* A trigger that takes no notice of the lock
triggerMemoryExtraction_NoCheck(g) ==
  /\ recording[g].calls < 2
  /\ extractionLocks' = [extractionLocks EXCEPT ![g] = TRUE]
  /\ recording' = [recording EXCEPT
                     ![g] = [NoRecording EXCEPT
                               !.st = "extract",
                               !.calls = recording[g].calls + 1]]
  /\ UNCHANGED <<now, wmVars, relVars, semVars, retVars, lastSummary,
                 svcVars,
                 extVars, lateVars>>

\* triggerMemoryExtraction(groupId) with messages to extract: it returns at
\* once when the community holds the lock; otherwise it sets the lock and
\* calls memory.record, which awaits extractMemories.  No await lies
\* between the test and the set.
triggerMemoryExtraction(g) ==
  /\ IF extractionLocks[g]
       THEN UNCHANGED <<extractionLocks, recording>>
       ELSE /\ extractionLocks' = [extractionLocks EXCEPT ![g] = TRUE]
            /\ recording' = [recording EXCEPT
                               ![g] = [NoRecording EXCEPT
                                         !.st = "extract",
                                         !.calls = recording[g].calls + 1]]
  /\ UNCHANGED <<now, wmVars, relVars, semVars, retVars, lastSummary,
                 svcVars,
                 extVars, lateVars>>

\* record: extractMemories has resolved with a result and
\* workingMemory.ingest is called with it
recordExtracted(g, worthRemembering, hasEpisodes) ==
  /\ recording[g].st = "extract"
  /\ IngestBegin(g, worthRemembering, hasEpisodes)
  /\ recording' = [recording EXCEPT
                     ![g].st = "ingest",
                     ![g].worthRemembering = worthRemembering]
  /\ UNCHANGED <<relVars, semVars, retVars, extractionLocks, lastSummary,
                 svcVars,
                 extVars, lateVars>>

\* record: the ingest it awaits resumes with the embeddings of the
\* result's episodes
recordResume(g, eps) ==
  /\ recording[g].st = "ingest"
  /\ IngestResume(g, eps)
  /\ recording' = [recording EXCEPT ![g].episodes = Len(eps)]
  /\ UNCHANGED <<relVars, semVars, retVars, extractionLocks, lastSummary,
                 svcVars,
                 extVars, lateVars>>

\* record: embedBatch throws inside the ingest it awaits; ingest logs and
\* returns, none of the n episodes of the result is buffered
recordEmbedFail(g, n) ==
  /\ recording[g].st = "ingest"
  /\ IngestEmbedFail(g)
  /\ recording' = [recording EXCEPT ![g].episodes = n, ![g].failed = TRUE]
  /\ UNCHANGED <<relVars, semVars, retVars, extractionLocks, lastSummary,
                 svcVars,
                 extVars, lateVars>>

\* The finally block of triggerMemoryExtraction
Unlocked(g) == [extractionLocks EXCEPT ![g] = FALSE]

Ended(g) ==
  [recording EXCEPT ![g] = [NoRecording EXCEPT
                              !.calls = recording[g].calls - 1]]

\* record: extractMemories rejects; the catch block returns the summary of
\* nothing remembered and the trigger's finally block deletes the lock
recordCatch(g) ==
  /\ recording[g].st = "extract"
  /\ lastSummary' = [groupId |-> g, worthRemembering |-> FALSE,
                     episodes |-> 0, failed |-> TRUE]
  /\ extractionLocks' = Unlocked(g)
  /\ recording' = Ended(g)
  /\ UNCHANGED <<now, wmVars, relVars, semVars, retVars, svcVars,
                 extVars, lateVars>>

\* record: ingest has returned, the flush it awaited included; record
\* returns the summary of the extraction result and the trigger's finally
\* block deletes the lock
recordReturn(g) ==
  /\ recording[g].st = "ingest"
  /\ ing[g].st = "idle"
  /\ \A s \in FlushSlots : ~(Running(s) /\ flush[s].by = g)
  /\ lastSummary' = [groupId |-> g,
                     worthRemembering |-> recording[g].worthRemembering,
                     episodes |-> recording[g].episodes,
                     failed |-> recording[g].failed]
  /\ extractionLocks' = Unlocked(g)
  /\ recording' = Ended(g)
  /\ UNCHANGED <<now, wmVars, relVars, semVars, retVars, svcVars,
                 extVars, lateVars>>

\* ------------------------------------------- scheduler and shutdown
\* startDistillationScheduler(): scheduleNext() arms the timer for the
\* next distillationHour.  The provider calls it once, after construction.
startDistillationScheduler ==
  /\ ~disposed
  /\ distillationTimer = "none"
  /\ ~scheduled
  /\ distillationTimer' = "armed"
  /\ UNCHANGED <<now, wmVars, relVars, semVars, retVars, apiVars,
                 scheduled, disposed,
                 extVars, lateVars>>

\* The callback of the distillation timer starts and awaits
\* runDistillation(); this.distillationTimer keeps the handle of the
\* timeout that has run.
DistillationTimerFire ==
  /\ distillationTimer = "armed"
  /\ distillation = "idle"
  /\ distillationTimer' = "fired"
  /\ scheduled' = TRUE
  /\ distillation' = "running"
  /\ cycleTier' = IF rel.exists THEN rel.closenessTier ELSE None
  /\ UNCHANGED <<now, wmVars, rel, relWriter, semVars, retVars, apiVars,
                 disposed,
                 extVars, lateVars>>

\* The callback resumes after runDistillation() has resolved or thrown:
\* scheduleNext() arms the timer for the next day.
scheduleNext ==
  /\ scheduled
  /\ distillation = "idle"
  /\ scheduled' = FALSE
  /\ distillationTimer' = "armed"
  /\ UNCHANGED <<now, wmVars, relVars, semVars, retVars, apiVars,
                 disposed,
                 extVars, lateVars>>

\* MemoryService.dispose(): stopDistillationScheduler() clears and nulls
\* the handle it holds, WorkingMemory.dispose() clears and nulls the flush
\* timer and calls flush() without awaiting it.
dispose ==
  /\ ~disposed
  /\ Len(pendingEpisodic) = 0 \/ FreeSlots # {}
  /\ disposed' = TRUE
  /\ distillationTimer' = "none"
  /\ flushTimer' = "none"
  /\ flush' = StartedFlush(flush, pendingEpisodic, None)
  /\ everOverlap' = OverlapAfter(pendingEpisodic)
  /\ UNCHANGED <<now, pendingEpisodic, episodic, ing, flushOutcome, offered,
                 fails, relVars, semVars, retVars, apiVars, scheduled,
                 extVars, lateVars>>

\* ------------------------------------------------- extraction: chunking
\* The rendered contents of the model's messages
\* (ContextRenderer.renderContent of a message with one text segment);
\* "[U+1F389][U+1F389]" stands for the text of two party-popper emoji.
Contents ==
  {"w", "[U+1F389][U+1F389]", "hello there", " Hello There ",
   "<at id=\"mio\"/> hi", "steam bgm clannad"}

\* renderContent(msg).length, in UTF-16 code units
RenderedLength(content) ==
  CASE content = "w" -> 1
    [] content = "[U+1F389][U+1F389]" -> 4
    [] content = "hello there" -> 11
    [] content = " Hello There " -> 13
    [] content = "<at id=\"mio\"/> hi" -> 17
    [] content = "steam bgm clannad" -> 17

\* /^[\u{1F300}-\u{1F9FF}]+$/u.test(renderContent(msg))
EmojiOnly(content) == content = "[U+1F389][U+1F389]"

\* renderContent(msg).trim().toLowerCase()
Normalized(content) ==
  IF content = " Hello There " THEN "hello there" ELSE content

\* renderContent(msg).includes('<at id="mio"/>')
MentionsMio(content) == content = "<at id=\"mio\"/> hi"

\* The matches of the relevant keywords in the lower-cased content
KeywordMatches(content) == IF content = "steam bgm clannad" THEN 3 ELSE 0

\* A chunker that cuts at the size cap only
RECURSIVE chunkMessages_OnlySize(_)
chunkMessages_OnlySize(msgs) ==
  IF Len(msgs) <= ChunkLimit
    THEN (IF Len(msgs) = 0 THEN <<>> ELSE <<msgs>>)
    ELSE <<SubSeq(msgs, 1, ChunkLimit)>>
           \o chunkMessages_OnlySize(SubSeq(msgs, ChunkLimit + 1, Len(msgs)))

\* The loop of chunkMessages over the remaining messages: a gap of more
\* than five minutes after a message closes the current chunk if it is
\* not empty; the message joins the current chunk, which is closed once
\* it has ChunkLimit messages; what is left is the last chunk.
RECURSIVE ChunkLoop(_, _, _, _)
ChunkLoop(msgs, done, currentChunk, lastTimestamp) ==
  IF msgs = <<>>
    THEN (IF Len(currentChunk) > 0 THEN Append(done, currentChunk)
                                   ELSE done)
    ELSE LET msg == Head(msgs)
             cut == /\ lastTimestamp > 0
                    /\ msg.timestamp - lastTimestamp > GapLimit
                    /\ Len(currentChunk) > 0
             done1 == IF cut THEN Append(done, currentChunk) ELSE done
             current1 == Append(IF cut THEN <<>> ELSE currentChunk, msg)
             full == Len(current1) >= ChunkLimit
         IN ChunkLoop(Tail(msgs),
                      IF full THEN Append(done1, current1) ELSE done1,
                      IF full THEN <<>> ELSE current1,
                      msg.timestamp)

chunkMessages(msgs) == ChunkLoop(msgs, <<>>, <<>>, 0)

\* ------------------------------------------ extraction: choosing chunks
\* maxRepeat: the largest number of messages of the chunk with the same
\* normalized content
MaxRepeat(chunk) ==
  LET count(k) == Cardinality({j \in 1..Len(chunk) :
                     Normalized(chunk[j].content)
                       = Normalized(chunk[k].content)})
  IN CHOOSE n \in 1..Len(chunk) :
       /\ \E k \in 1..Len(chunk) : count(k) = n
       /\ \A k \in 1..Len(chunk) : count(k) <= n

\* isSpamChunk(chunk): chunks of fewer than five messages are never spam;
\* otherwise shortMessages / length > 0.6 or maxRepeat / length > 0.7
isSpamChunk(chunk) ==
  IF Len(chunk) < MinSpamChunk THEN FALSE
  ELSE LET short(msg) == \/ RenderedLength(msg.content) <= 3
                         \/ EmojiOnly(msg.content)
           shortMessages ==
             Cardinality({k \in 1..Len(chunk) : short(chunk[k])})
       IN \/ shortMessages * 10 > 6 * Len(chunk)
          \/ MaxRepeat(chunk) * 10 > 7 * Len(chunk)

RECURSIVE MatchCount(_)
MatchCount(chunk) ==
  IF chunk = <<>> THEN 0
  ELSE KeywordMatches(Head(chunk).content) + MatchCount(Tail(chunk))

\* hasRelevantTopics(chunk): the keywords match three times or more
hasRelevantTopics(chunk) == MatchCount(chunk) >= TopicMatches

\* shouldExtractChunk(chunk, groupId); sampled is Math.random() < 0.33
shouldExtractChunk(chunk, sampled) ==
  IF isSpamChunk(chunk) THEN FALSE
  ELSE IF \E k \in 1..Len(chunk) : chunk[k].isBot THEN TRUE
  ELSE IF \E k \in 1..Len(chunk) : MentionsMio(chunk[k].content) THEN TRUE
  ELSE IF hasRelevantTopics(chunk) THEN TRUE
  ELSE sampled

\* ------------------------------------------------------ extractMemories
\* The build whose extractMemories filters and triages the chunks is the
\* build whose Working Memory queues the relational updates; the other
\* build sends every chunk to extractChunk.
Triages == relWriter = "working-memory"

\* The call goes on with chunk i + 1, or returns after the last chunk
AfterChunk(e) ==
  [e EXCEPT !.i = @ + 1,
            !.stage = IF e.i + 1 > Len(chunks) THEN "done"
                      ELSE IF Triages THEN "select" ELSE "extract"]

\* extractMemories(llm, modelConfig, messages, botName, ctx, groupId) up
\* to the loop over the chunks
extractMemoriesStart ==
  /\ extraction.stage = "idle"
  /\ chunks' = chunkMessages(messages)
  /\ extraction' =
       [extraction EXCEPT !.i = 1,
          !.stage = IF Len(chunks') = 0 THEN "done"
                    ELSE IF Triages THEN "select" ELSE "extract"]
  /\ UNCHANGED <<now, wmVars, relVars, semVars, retVars, apiVars, svcVars,
                 messages, lateVars>>

\* The head of the loop: a chunk shouldExtractChunk refuses is skipped
SelectChunk ==
  /\ extraction.stage = "select"
  /\ \E sampled \in BOOLEAN :
       LET chunk == chunks[extraction.i]
           take == shouldExtractChunk(chunk, sampled)
           e == [extraction EXCEPT
                   !.selected = Append(@, [spam |-> isSpamChunk(chunk),
                                           sampled |-> sampled,
                                           take |-> take])]
       IN extraction' = IF take THEN [e EXCEPT !.stage = "triage"]
                                ELSE AfterChunk(e)
  /\ UNCHANGED <<now, wmVars, relVars, semVars, retVars, apiVars, svcVars,
                 messages, chunks, lateVars>>

\* triageMessages(chunk) returns: the vibes are collected, and only a
\* chunk worth remembering goes on to extractChunk
TriageReturns ==
  /\ extraction.stage = "triage"
  /\ \E worthRemembering \in BOOLEAN, vibes \in BOOLEAN :
       LET e == [extraction EXCEPT
                   !.calls = Append(@, [call |-> "triage",
                                        chunk |-> extraction.i]),
                   !.merged = IF vibes
                                THEN Append(@, [what |-> "vibes",
                                                chunk |-> extraction.i])
                                ELSE @]
       IN extraction' = IF worthRemembering
                          THEN [e EXCEPT !.stage = "extract"]
                          ELSE AfterChunk(e)
  /\ UNCHANGED <<now, wmVars, relVars, semVars, retVars, apiVars, svcVars,
                 messages, chunks, lateVars>>

\* llm.chat of triageMessages throws: extractMemories rejects
TriageThrows ==
  /\ extraction.stage = "triage"
  /\ extraction' =
       [extraction EXCEPT !.stage = "failed",
          !.calls = Append(@, [call |-> "triage", chunk |-> extraction.i])]
  /\ UNCHANGED <<now, wmVars, relVars, semVars, retVars, apiVars, svcVars,
                 messages, chunks, lateVars>>

\* extractChunk(chunk) returns: its episodes and relational updates are
\* merged if the result is worth remembering.  Without triage the vibes
\* come from this call.
ExtractChunkReturns ==
  /\ extraction.stage = "extract"
  /\ \E worthRemembering \in BOOLEAN, vibes \in BOOLEAN :
       /\ Triages => ~vibes
       /\ LET v == IF vibes
                     THEN Append(extraction.merged,
                                 [what |-> "vibes", chunk |-> extraction.i])
                     ELSE extraction.merged
              e == [extraction EXCEPT
                      !.calls = Append(@, [call |-> "extract",
                                           chunk |-> extraction.i]),
                      !.merged = IF worthRemembering
                                   THEN Append(v, [what |-> "episodes",
                                                   chunk |-> extraction.i])
                                   ELSE v]
          IN extraction' = AfterChunk(e)
  /\ UNCHANGED <<now, wmVars, relVars, semVars, retVars, apiVars, svcVars,
                 messages, chunks, lateVars>>

\* llm.chat of extractChunk throws where the call is not guarded:
\* extractMemories rejects
ExtractChunkThrows ==
  /\ extraction.stage = "extract"
  /\ Triages
  /\ extraction' =
       [extraction EXCEPT !.stage = "failed",
          !.calls = Append(@, [call |-> "extract", chunk |-> extraction.i])]
  /\ UNCHANGED <<now, wmVars, relVars, semVars, retVars, apiVars, svcVars,
                 messages, chunks, lateVars>>

\* ------------------------------------------ MemoryExtractionScheduler
\* The configuration, scaled down (the defaults are 30 messages, 15
\* minutes and 8 messages), and MessageBuffer.maxSize (40).  In this part
\* the clock and the timestamps count minutes.
minMessages == 4
maxWaitMinutes == 2
activeThreshold == 2
maxSize == 5

\* A decision that compares the count strictly with minMessages
checkShouldExtract_Above(count, lastExtracted, lastActive, t) ==
  IF count > minMessages
    THEN [shouldExtract |-> TRUE, reason |-> "batch", pendingCount |-> count]
  ELSE IF lastActive # -1 /\ count - lastActive >= activeThreshold
    THEN [shouldExtract |-> TRUE, reason |-> "active",
          pendingCount |-> count]
  ELSE IF t - lastExtracted > maxWaitMinutes /\ count > 0
    THEN [shouldExtract |-> TRUE, reason |-> "timeout",
          pendingCount |-> count]
  ELSE [shouldExtract |-> FALSE, reason |-> None, pendingCount |-> count]

\* checkShouldExtract on the counters of a community at time t;
\* lastActive is -1 for undefined
checkShouldExtract(count, lastExtracted, lastActive, t) ==
  IF count >= minMessages
    THEN [shouldExtract |-> TRUE, reason |-> "batch", pendingCount |-> count]
  ELSE IF lastActive # -1 /\ count - lastActive >= activeThreshold
    THEN [shouldExtract |-> TRUE, reason |-> "active",
          pendingCount |-> count]
  ELSE IF t - lastExtracted > maxWaitMinutes /\ count > 0
    THEN [shouldExtract |-> TRUE, reason |-> "timeout",
          pendingCount |-> count]
  ELSE [shouldExtract |-> FALSE, reason |-> None, pendingCount |-> count]

\* The scheduler's counters of one community, the messages of the
\* extraction in flight for it (none: no lock) and the history
Counters(g) ==
  [count |-> pendingCount[g], lastExtracted |-> lastExtractedAt[g],
   lastActive |-> lastActiveMark[g], recording |-> inExtraction[g],
   since |-> sinceMark[g]]

\* markExtracted(groupId, timestamp)
markExtracted(c, timestamp) ==
  [c EXCEPT !.count = 0, !.lastExtracted = timestamp, !.lastActive = -1,
            !.since = [c.since EXCEPT !.messages = 0, !.sinceBot = -1]]

Timestamps(msgs) == {msgs[k].timestamp : k \in 1..Len(msgs)}

\* triggerMemoryExtraction up to its await, at time t on the buffered
\* messages buf: it returns on the lock and on a count of 0, marks the
\* community extracted when the buffer has nothing newer than the cutoff,
\* and otherwise locks and calls memory.record
triggerExtraction(c, buf, t) ==
  IF Len(c.recording) > 0 THEN c
  ELSE IF c.count = 0 THEN c
  ELSE LET messages_ ==
             SelectSeq(buf, LAMBDA m : m.timestamp > c.lastExtracted)
       IN IF Len(messages_) = 0 THEN markExtracted(c, t)
          ELSE [c EXCEPT
                  !.recording = messages_,
                  !.since = [c.since EXCEPT
                               !.extracted = c.since.extracted
                                               \cup Timestamps(messages_)]]

\* The counters of community g become c
SetCounters(g, c) ==
  /\ pendingCount' = [pendingCount EXCEPT ![g] = c.count]
  /\ lastExtractedAt' = [lastExtractedAt EXCEPT ![g] = c.lastExtracted]
  /\ lastActiveMark' = [lastActiveMark EXCEPT ![g] = c.lastActive]
  /\ inExtraction' = [inExtraction EXCEPT ![g] = c.recording]
  /\ sinceMark' = [sinceMark EXCEPT ![g] = c.since]

\* MessageBuffer.push: append, and drop the oldest above maxSize
Pushed(buf, msg) ==
  IF Len(buf) + 1 > maxSize THEN Tail(Append(buf, msg))
  ELSE Append(buf, msg)

\* A message of community g arrives: buffer.push, onNewMessage, and on a
\* positive decision triggerMemoryExtraction (fire and forget)
onNewMessage(groupId, isBot) ==
  /\ now' = now + 1
  /\ LET t == now + 1
         msg == [timestamp |-> t, isBot |-> isBot]
         buf == Pushed(buffer[groupId], msg)
         c == Counters(groupId)
         count == c.count + 1
         counted ==
           [c EXCEPT
              !.count = count,
              !.lastActive = IF isBot THEN count ELSE c.lastActive,
              !.since =
                 [c.since EXCEPT
                    !.messages = c.since.messages + 1,
                    !.sinceBot = IF isBot THEN 0
                                 ELSE IF c.since.sinceBot = -1 THEN -1
                                 ELSE c.since.sinceBot + 1,
                    !.late = IF Len(c.recording) > 0
                               THEN c.since.late \cup {t}
                               ELSE c.since.late]]
         d == checkShouldExtract(counted.count, counted.lastExtracted,
                                 counted.lastActive, t)
     IN /\ buffer' = [buffer EXCEPT ![groupId] = buf]
        /\ decision' = [groupId |-> groupId,
                        shouldExtract |-> d.shouldExtract,
                        reason |-> d.reason, pendingCount |-> d.pendingCount]
        /\ SetCounters(groupId,
                       IF d.shouldExtract
                         THEN triggerExtraction(counted, buf, t)
                         ELSE counted)
  /\ UNCHANGED <<wmVars, relVars, semVars, retVars, apiVars, svcVars,
                 extVars, parseVars, coreVars, vibeVars, factVars,
                 relQueueVars>>

\* memory.record returns for community g: markExtracted with the
\* timestamp of the last message of the call, then the lock is released
extractionReturns(g) ==
  /\ Len(inExtraction[g]) > 0
  /\ LET c == Counters(g)
         lastProcessedTimestamp ==
           c.recording[Len(c.recording)].timestamp
     IN SetCounters(g, [markExtracted(c, lastProcessedTimestamp)
                          EXCEPT !.recording = <<>>])
  /\ UNCHANGED <<now, buffer, decision, wmVars, relVars, semVars, retVars,
                 apiVars, svcVars, extVars, parseVars, coreVars, vibeVars,
                 factVars, relQueueVars>>

\* The interval callback of startTimeoutChecker: for every enabled
\* community, checkShouldExtract, and triggerMemoryExtraction when the
\* decision is a timeout
timeoutCheck ==
  /\ LET After(g) ==
           LET c == Counters(g)
               d == checkShouldExtract(c.count, c.lastExtracted,
                                       c.lastActive, now)
           IN IF d.shouldExtract /\ d.reason = "timeout"
                THEN triggerExtraction(c, buffer[g], now)
                ELSE c
     IN /\ pendingCount' = [g \in Groups |-> After(g).count]
        /\ lastExtractedAt' = [g \in Groups |-> After(g).lastExtracted]
        /\ lastActiveMark' = [g \in Groups |-> After(g).lastActive]
        /\ inExtraction' = [g \in Groups |-> After(g).recording]
        /\ sinceMark' = [g \in Groups |-> After(g).since]
  /\ UNCHANGED <<now, buffer, decision, wmVars, relVars, semVars, retVars,
                 apiVars, svcVars, extVars, parseVars, coreVars, vibeVars,
                 factVars, relQueueVars>>

\* A minute passes
minutePasses ==
  /\ now' = now + 1
  /\ UNCHANGED <<wmVars, relVars, semVars, retVars, apiVars, svcVars,
                 extVars, lateVars>>

\* --------------------------------------- WorkingMemory, session vibes
\* vibe.ttlHours * 3600_000 in the unit of the clock
HoursPerDay == 24

\* for (const vibe of result.sessionVibes) this.sessionVibes.set(key, ...)
\* with the now of the ingest call
RECURSIVE SetVibes(_, _, _, _, _)
SetVibes(table, g, vs, t, k) ==
  IF k > Len(vs) THEN table
  ELSE SetVibes([table EXCEPT
                   ![g][vs[k].userId] =
                      [vibe |-> vs[k].vibe,
                       expiresAt |-> t + vs[k].ttlHours \div HoursPerDay]],
                g, vs, t, k + 1)

\* MemoryService.record hands the result of extractMemories to ingest:
\* worthRemembering is allEpisodes.length > 0, vs is allVibes.  The call
\* runs up to its first await; without episodes to embed it runs to its
\* end.
ingestVibes(g, worthRemembering, vs) ==
  /\ IngestBegin(g, worthRemembering, worthRemembering)
  /\ IF ~worthRemembering
       THEN /\ vibeRead' =
                 [vibeRead EXCEPT
                    !.returned = SetVibes(vibeRead.returned, g, vs, now, 1)]
            /\ UNCHANGED <<sessionVibes, vibeCall>>
       ELSE /\ vibeCall' = [vibeCall EXCEPT ![g] = vs]
            /\ UNCHANGED <<sessionVibes, vibeRead>>
  /\ UNCHANGED <<relVars, semVars, retVars, apiVars, svcVars, extVars,
                 parseVars, coreVars, schedVars, factVars,
                 relQueueVars>>

\* The vibes loop of the call of community g, which follows the embedding
\* block whether it threw or not
VibesLoop(g) ==
  /\ sessionVibes' = SetVibes(sessionVibes, g, vibeCall[g], ing[g].now, 1)
  /\ vibeRead' =
       [vibeRead EXCEPT
          !.returned = SetVibes(vibeRead.returned, g, vibeCall[g],
                                ing[g].now, 1)]
  /\ vibeCall' = [vibeCall EXCEPT ![g] = <<>>]

ingestVibesResume(g, eps) ==
  /\ IngestResume(g, eps)
  /\ VibesLoop(g)
  /\ UNCHANGED <<relVars, semVars, retVars, apiVars, svcVars, extVars,
                 parseVars, coreVars, schedVars, factVars,
                 relQueueVars>>

ingestVibesEmbedFail(g) ==
  /\ IngestEmbedFail(g)
  /\ VibesLoop(g)
  /\ UNCHANGED <<relVars, semVars, retVars, apiVars, svcVars, extVars,
                 parseVars, coreVars, schedVars, factVars,
                 relQueueVars>>

\* getSessionVibe(groupId, userId): null (0) when there is no entry or
\* when Date.now() > expiresAt, the entry being deleted then
getSessionVibe(groupId, userId) ==
  /\ LET vibe == sessionVibes[groupId][userId]
     IN IF vibe.vibe = 0
          THEN /\ vibeRead' = [vibeRead EXCEPT !.vibe = 0]
               /\ UNCHANGED sessionVibes
          ELSE IF now > vibe.expiresAt
            THEN /\ sessionVibes' =
                      [sessionVibes EXCEPT ![groupId][userId] = NoVibe]
                 /\ vibeRead' = [vibeRead EXCEPT !.vibe = 0]
          ELSE /\ vibeRead' = [vibeRead EXCEPT !.vibe = vibe.vibe]
               /\ UNCHANGED sessionVibes
  /\ UNCHANGED <<now, wmVars, vibeCall, relVars, semVars, retVars, apiVars,
                 svcVars, extVars, parseVars, coreVars, schedVars,
                 factVars, relQueueVars>>

\* ------------------------------ DistillationPipeline, core impression
\* Bounds: the significant events of a row, the cycles that reach the
\* person
MaxEvents == 5
MaxCycles == 2

\* What the model answers to the core impression prompt: text that does
\* not parse, unchanged: true, an empty new_impression, a new impression
CoreAnswers == {"invalid", "unchanged", "empty", "text"}

\* A significant event as the Working Memory queues it
SignificantEvent(weight, tone) ==
  [importance |-> weight, emotionalTone |-> tone, consumed |-> FALSE]

\* events.filter((e) => !e.consumed)
unconsumedEvents == SelectSeq(core.events, LAMBDA e : ~e.consumed)

\* unconsumedEvents.some((e) => e.importance >= 0.8)
hasHighImportance ==
  \E k \in 1..Len(unconsumedEvents) : unconsumedEvents[k].importance >= 8

\* maxCount / tones.length >= 0.6, true for fewer than two events
isEmotionallyConsistent(events) ==
  \/ Len(events) < 2
  \/ \E tone \in {events[k].emotionalTone : k \in 1..Len(events)} :
       10 * Cardinality({k \in 1..Len(events) :
                           events[k].emotionalTone = tone})
         >= 6 * Len(events)

hasManyConsistent ==
  /\ Len(unconsumedEvents) >= 5
  /\ isEmotionallyConsistent(unconsumedEvents)

\* A trigger that takes a core impression of exactly 30 days for stale
CoreTriggered_From30(activeFacts) ==
  IF relWriter = "working-memory"
    THEN hasHighImportance \/ hasManyConsistent \/ core.coreImpression = 0
    ELSE /\ Len(activeFacts) >= 3
         /\ \/ core.coreImpression = 0
            \/ now - core.coreImpressionUpdatedAt >= 30

\* The function goes on to the model call.  The build that writes
\* significant events: a high importance event, many consistent events or
\* a new person.  The build that writes person facts: at least 3 active
\* facts, and a new person or a core impression older than 30 days.
CoreTriggered(activeFacts) ==
  IF relWriter = "working-memory"
    THEN hasHighImportance \/ hasManyConsistent \/ core.coreImpression = 0
    ELSE /\ Len(activeFacts) >= 3
         /\ \/ core.coreImpression = 0
            \/ now - core.coreImpressionUpdatedAt > 30

\* The loop body of runForGroup for the person, core impression part: the
\* person is skipped when the last interaction is more than 7 days old;
\* otherwise updateCoreImpression runs, answer being the model's answer
\* when it gets to the call
updateCoreImpression(answer) ==
  /\ core.cycles < MaxCycles
  /\ LET activeFacts == SelectSeq(FactsOf("u1"), NotSuperseded)
         reached == [core EXCEPT !.cycles = core.cycles + 1]
         called == [reached EXCEPT !.calls = core.calls + 1]
     IN core' =
          IF core.lastInteraction < now - 7 THEN reached
          ELSE IF ~CoreTriggered(activeFacts) THEN reached
          ELSE IF answer = "text"
            THEN [called EXCEPT !.coreImpression = 2,
                                !.coreImpressionUpdatedAt = now]
          ELSE called
  /\ UNCHANGED <<now, wmVars, relVars, semVars, retVars, apiVars, svcVars,
                 extVars, parseVars, vibeVars, schedVars, factVars,
                 relQueueVars>>

\* The Working Memory writes a significant event of the person to the row
SignificantEventWritten(weight, tone) ==
  /\ relWriter = "working-memory"
  /\ Len(core.events) < MaxEvents
  /\ core' = [core EXCEPT
                !.events = Append(core.events,
                                  SignificantEvent(weight, tone)),
                !.lastInteraction = now]
  /\ UNCHANGED <<now, wmVars, relVars, semVars, retVars, apiVars, svcVars,
                 extVars, parseVars, vibeVars, schedVars, factVars,
                 relQueueVars>>

\* ------------------------------------------- extractChunk: participants
\* BOT_USER_ID, and the persona's display name (config.botName)
BOT_USER_ID == "bot"
BotName == "Mio"

\* The members who can have sent a message of the chunk
Members ==
  {[senderId |-> "10001", sender |-> "Alice"],
   [senderId |-> "10002", sender |-> "bob"]}

\* What the model can put where an identifier is expected: an id, an id
\* with blanks around it, nicknames, names of the persona, ids with a
\* prefix 'u', and the name of somebody who is not in the chunk
RawIds ==
  {"10001", " 10001 ", "Alice", "bob", "Mio", "BOT", "mio", "u10001",
   "u10002", "u10003", "Carol"}

\* String(p).trim()
Trim(p) == IF p = " 10001 " THEN "10001" ELSE p

\* normalized.toLowerCase()
ToLowerCase(p) ==
  CASE p = "BOT" -> "bot"
    [] p = "Mio" -> "mio"
    [] p = "Alice" -> "alice"
    [] p = "Carol" -> "carol"
    [] OTHER -> p

\* /^u\d+$/.test(normalized), and normalized.substring(1)
HasUPrefix(p) == p \in {"u10001", "u10002", "u10003"}
WithoutPrefix(p) ==
  CASE p = "u10001" -> "10001"
    [] p = "u10002" -> "10002"
    [] p = "u10003" -> "10003"
    [] OTHER -> p

\* validUserIds: 'bot' and the sender ids of the messages that are not
\* the persona's
ValidUserIds(msgs) ==
  {BOT_USER_ID} \cup {msgs[k].senderId : k \in {j \in 1..Len(msgs) :
                                                  ~msgs[j].isBot}}

\* nicknameToUserId.get(name): the sender id of the last message of a
\* member with that display name, or None
NicknameToUserId(msgs, name) ==
  LET S == {k \in 1..Len(msgs) : ~msgs[k].isBot /\ msgs[k].sender = name}
  IN IF S = {} THEN None
     ELSE msgs[CHOOSE k \in S : \A j \in S : j <= k].senderId

\* The mapping of one entry of m.participants
Participant(msgs, p) ==
  LET normalized == Trim(p)
  IN IF normalized \in ValidUserIds(msgs) THEN normalized
     ELSE IF NicknameToUserId(msgs, normalized) # None
       THEN NicknameToUserId(msgs, normalized)
     ELSE IF \/ normalized = BotName
             \/ ToLowerCase(normalized) = "bot"
             \/ normalized = "mio"
       THEN BOT_USER_ID
     ELSE IF /\ HasUPrefix(normalized)
             /\ WithoutPrefix(normalized) \in ValidUserIds(msgs)
       THEN WithoutPrefix(normalized)
     ELSE normalized

\* The user of a relationship observation or of a name observation: None
\* stands for the null that the filter removes
ObservedUser(msgs, user) ==
  IF user \in ValidUserIds(msgs) THEN user
  ELSE NicknameToUserId(msgs, user)

\* The entries that are not null
Kept(users) == SelectSeq(users, LAMBDA u : u # None)

\* extractChunk(messages) after the model has answered with one memory
\* with the participants ps, one relationship observation about rel and
\* one name observation about named (which only the build with name
\* observations reads)
extractChunkParse(ps, rel_, named) ==
  /\ ~parsed.called
  /\ Len(messages) > 0
  /\ parsed' =
       [called |-> TRUE,
        validUserIds |-> ValidUserIds(messages),
        participants |-> [k \in 1..Len(ps) |-> Participant(messages, ps[k])],
        relationalUpdates |-> Kept(<<ObservedUser(messages, rel_)>>),
        nameObservations |->
          IF relWriter = "person-learning"
            THEN Kept(<<ObservedUser(messages, named)>>)
            ELSE <<>>]
  /\ UNCHANGED <<now, wmVars, relVars, semVars, retVars, apiVars, svcVars,
                 extVars, coreVars, vibeVars, schedVars, factVars,
                 relQueueVars>>

\* ------------------------------------------------------- specifications
Ingest ==
  /\ \E g \in Groups, w \in BOOLEAN, h \in BOOLEAN : IngestBegin(g, w, h)
  /\ UNCHANGED otherVars

IngestContinue ==
  /\ \E g \in Groups : \E eps \in EpisodeLists(g) : IngestResume(g, eps)
  /\ UNCHANGED otherVars

IngestFails ==
  /\ \E g \in Groups : IngestEmbedFail(g)
  /\ UNCHANGED otherVars

FlushStepOk ==
  /\ \E s \in FlushSlots : FlushWriteOk(s)
  /\ UNCHANGED otherVars

FlushStepFail ==
  /\ \E s \in FlushSlots : FlushWriteFail(s)
  /\ UNCHANGED otherVars

Next ==
  \/ Ingest
  \/ IngestContinue
  \/ IngestFails
  \/ FlushStepOk
  \/ FlushStepFail
  \/ TimerFire
  \/ ManualFlush

Spec == Init /\ [][Next]_vars

\* The relational memory of one person, under either writer
InitRel ==
  /\ InitWorkingMemory
  /\ InitRelational
  /\ InitSemantic
  /\ relWriter \in RelWriters

\* Extractions with n observations of the person while the embedding
\* service is down: only the relational row is written
PersonObservations ==
  \E n \in BatchSizes :
    processPersonObservations([i \in 1..n |-> [content |-> 1, importance |-> 8]],
                              FALSE)

Silence == \E d \in DaySteps : DaysPass(d)

DistillationRun == \E written \in BOOLEAN : runForGroup(written)

NextRel ==
  \/ PersonObservations
  \/ upsertRelational
  \/ Silence
  \/ DistillationStart
  \/ DistillationRun
  \/ cleanup

SpecRel == InitRel /\ [][NextRel]_vars

\* The semantic facts of one community: observation writers, distillation
\* and readers.  One episode of the community is durable and recent.
InitSem ==
  /\ now = 2
  /\ episodic = <<[id |-> 1, groupId |-> "g1", summary |-> 1,
                   embedding |-> Embed(1), eventTime |-> 1,
                   archived |-> FALSE, accessCount |-> 0,
                   distilled |-> FALSE]>>
  /\ InitQueue
  /\ retrieved = NoRetrieve
  /\ accessUpdates = NoAccessUpdates
  /\ InitApi
  /\ InitService
  /\ InitExtraction
  /\ InitLate
  /\ InitRelational
  /\ InitSemantic
  /\ relWriter = "person-learning"

PersonObservation ==
  \E c \in ObservedContents, i \in Importances :
    processPersonObservations(<<[content |-> c, importance |-> i]>>, TRUE)

CulturalObservation ==
  \E c \in ObservedContents, k \in ModelConfidences :
    processCulturalObservations(<<[content |-> c, confidence |-> k]>>)

NewFact ==
  \E s \in Subjects, c \in DistilledContents, k \in ModelConfidences :
    MaintainNew(s, "trait", c, k)

ConfirmedFact ==
  \E id \in 1..Len(semantic), k \in ModelConfidences :
    MaintainConfirmed(id, k)

EvolvedFact ==
  \E id \in 1..Len(semantic), c \in DistilledContents, k \in ModelConfidences :
    MaintainEvolved(id, c, k)

DecayedFact ==
  \E id \in 1..Len(semantic), k \in ModelConfidences :
    MaintainDecayed(id, k)

NextSem ==
  \/ PersonObservation
  \/ CulturalObservation
  \/ DistillationStart
  \/ MaintainLoad
  \/ NewFact
  \/ ConfirmedFact
  \/ EvolvedFact
  \/ DecayedFact
  \/ MaintainEnd
  \/ DistillationRun
  \/ cleanup

SpecSem == InitSem /\ [][NextSem]_vars

\* Retrieval over the Working Memory queue and the episodic store, with the
\* daily run that archives rows.  The plugin has restarted on a store that
\* holds three active episodes of two communities, one more than
\* activePoolLimit; the model's answer of semantic maintenance does not
\* parse.  A reply is assembled before the next event is taken: what
\* retrieve returned is a value that no later event changes.
MaxRemembered == 2
QuietDays == 25

StoredRow(id, groupId, summary, eventTime) ==
  [id |-> id, groupId |-> groupId, summary |-> summary,
   embedding |-> Embed(summary), eventTime |-> eventTime,
   archived |-> FALSE, accessCount |-> 0, distilled |-> FALSE]

InitRet ==
  /\ now = 4
  /\ episodic = <<StoredRow(1, "g1", 1, 1), StoredRow(2, "g2", 1, 2),
                  StoredRow(3, "g1", 3, 3)>>
  /\ InitQueue
  /\ retrieved = NoRetrieve
  /\ accessUpdates = NoAccessUpdates
  /\ InitApi
  /\ InitService
  /\ InitExtraction
  /\ InitLate
  /\ InitRelational
  /\ InitSemantic
  /\ relWriter = "person-learning"

\* Extractions that carry one episode worth remembering
Remember ==
  /\ offered < MaxRemembered
  /\ \E g \in Groups : IngestBegin(g, TRUE, TRUE)
  /\ UNCHANGED otherVars

RememberContinue ==
  /\ \E g \in Groups : \E s \in SummariesOf(g) : IngestResume(g, <<s>>)
  /\ UNCHANGED otherVars

\* Weeks pass, once, between calls: no ingest or flush stays in flight
\* that long
Wait ==
  /\ \A g \in Groups : ing[g].st = "idle"
  /\ \A s \in FlushSlots : ~Running(s)
  /\ now <= QuietDays
  /\ DaysPass(QuietDays)

\* chatHistoryStart: absent (0), or the timestamp of the first buffered
\* message, one that arrived with a remembered episode
ChatHistoryStarts ==
  {0} \cup {episodic[i].eventTime : i \in 1..Len(episodic)}
      \cup {pendingEpisodic[i].eventTime : i \in 1..Len(pendingEpisodic)}

Retrieve ==
  \E groupId \in Groups, recentText \in Queries, topK \in TopKs,
     chatHistoryStart \in ChatHistoryStarts, embedOk \in BOOLEAN :
    retrieve(groupId, recentText, topK, chatHistoryStart, embedOk)

NoReply == retrieved = NoRetrieve

NextRet ==
  \/ NoReply /\ Remember
  \/ NoReply /\ RememberContinue
  \/ NoReply /\ FlushStepOk
  \/ NoReply /\ TimerFire
  \/ NoReply /\ Wait
  \/ NoReply /\ DistillationStart
  \/ NoReply /\ DistillationRun
  \/ NoReply /\ cleanup
  \/ Retrieve
  \/ assemble

SpecRet == InitRet /\ [][NextRet]_vars


\* The three collections through ingest, flush, observations, retrieval and
\* distillation cycles, under either build.  The plugin has restarted on a
\* store that holds three active episodes, one more than activePoolLimit;
\* in the build that scores retention the episodes of summary 1 have been
\* recalled once and the one of g1 has been distilled.
AgedRow(id, groupId, summary, eventTime, accessCount, distilled) ==
  [StoredRow(id, groupId, summary, eventTime)
     EXCEPT !.accessCount = accessCount, !.distilled = distilled]

InitStore ==
  /\ now = 4
  /\ relWriter \in RelWriters
  /\ episodic = IF relWriter = "working-memory"
                  THEN <<AgedRow(1, "g1", 1, 2, 1, TRUE),
                         AgedRow(2, "g2", 1, 1, 1, FALSE),
                         StoredRow(3, "g1", 3, 3)>>
                  ELSE <<StoredRow(1, "g1", 1, 2), StoredRow(2, "g2", 1, 1),
                         StoredRow(3, "g1", 3, 3)>>
  /\ InitQueue
  /\ retrieved = NoRetrieve
  /\ accessUpdates = NoAccessUpdates
  /\ InitApi
  /\ InitService
  /\ InitExtraction
  /\ InitLate
  /\ InitRelational
  /\ InitSemantic

\* cleanup of the build whose run() maintains the semantic facts
CleanupByAge == relWriter = "person-learning" /\ cleanup

\* The run is scheduled for the hours the chat is quiet: no ingest and no
\* flush is in flight when it starts, and none starts before it ends.
ChatQuiet ==
  /\ \A g \in Groups : ing[g].st = "idle"
  /\ \A s \in FlushSlots : ~Running(s)

Chat == NoReply /\ distillation = "idle"

\* The person is observed once, the first time they are met
FirstMeeting == ~rel.exists

NightlyRun == NoReply /\ ChatQuiet /\ DistillationStart

\* One fact the model rewrites
RewriteFact == \E id \in 1..Len(semantic) : MaintainEvolved(id, 3, 15)

\* A reply is composed while the chat is quiet
Recall == \E groupId \in Groups : retrieve(groupId, 1, 5, 0, TRUE)

NextStore ==
  \/ Chat /\ Remember
  \/ Chat /\ RememberContinue
  \/ Chat /\ FlushStepOk
  \/ Chat /\ TimerFire
  \/ Chat /\ Wait
  \/ Chat /\ FirstMeeting /\ PersonObservation
  \/ Chat /\ FirstMeeting /\ upsertRelational
  \/ NightlyRun
  \/ MaintainLoad
  \/ RewriteFact
  \/ MaintainEnd
  \/ DistillationRun
  \/ CleanupByAge
  \/ cleanupByRetention
  \/ Chat /\ ChatQuiet /\ Recall
  \/ assemble

SpecStore == InitStore /\ [][NextStore]_vars


\* One community's distillation cycles with the answers and failures a
\* stage can meet: results with an entry that lacks its id, and stages that
\* throw.  Observations arrive while no run is in progress.
MalformedEntry == \E kind \in {"confirmed", "decayed"} : MaintainMalformed(kind)

NextRun ==
  \/ distillation = "idle" /\ PersonObservation
  \/ distillation = "idle" /\ CulturalObservation
  \/ DistillationStart
  \/ MaintainLoad
  \/ NewFact
  \/ ConfirmedFact
  \/ EvolvedFact
  \/ DecayedFact
  \/ MalformedEntry
  \/ MaintainEnd
  \/ DistillationRun
  \/ runCatch
  \/ cleanup

SpecRun == InitSem /\ [][NextRun]_vars


\* The write path from the trigger to the summary: extractions of the two
\* communities, their ingests and flushes, with the failures each can meet.
Trigger == \E g \in Groups : triggerMemoryExtraction(g)

\* The extraction finds nothing worth remembering, or episodes
Extracted ==
  \E g \in Groups, w \in BOOLEAN : recordExtracted(g, w, w)

Buffered ==
  \E g \in Groups : \E s \in SummariesOf(g) : recordResume(g, <<s>>)

NotBuffered == \E g \in Groups : recordEmbedFail(g, 1)

ExtractionFails == \E g \in Groups : recordCatch(g)

Returned == \E g \in Groups : recordReturn(g)

NextApi ==
  \/ Trigger
  \/ Extracted
  \/ Buffered
  \/ NotBuffered
  \/ ExtractionFails
  \/ Returned
  \/ FlushStepOk

SpecApi == Init /\ [][NextApi]_vars

\* ----------------------------------------- the service's life: startup,
\* the two timers, the calls in flight, shutdown.  The plugin stops
\* handing messages to the service once it is disposed; calls in flight
\* run on.
Arrives == ~disposed /\ Ingest

DistillationEnds == relWriter = "person-learning" /\ cleanup

NextLife ==
  \/ Arrives
  \/ IngestContinue
  \/ FlushStepOk
  \/ TimerFire
  \/ startDistillationScheduler
  \/ DistillationTimerFire
  \/ DistillationRun
  \/ DistillationEnds
  \/ scheduleNext
  \/ dispose

SpecLife == Init /\ [][NextLife]_vars

\* ------------------------------------ ingest at the dedup threshold: the
\* store holds an archived episode of g1 (summary 3); the candidates
\* include summary 4, whose similarity to summary 1 is exactly 0.9.
ThresholdSummaries == {1, 3, 4}

ThresholdLists ==
  UNION {[1..n -> ThresholdSummaries] : n \in EpisodeCounts}

InitDedup ==
  /\ now = 2
  /\ episodic = <<[StoredRow(1, "g1", 3, 1) EXCEPT !.archived = TRUE]>>
  /\ InitQueue
  /\ retrieved = NoRetrieve
  /\ accessUpdates = NoAccessUpdates
  /\ InitApi
  /\ InitService
  /\ InitExtraction
  /\ InitLate
  /\ InitRelational
  /\ InitSemantic
  /\ relWriter = "person-learning"

IngestAtThreshold ==
  /\ \E g \in Groups : \E eps \in ThresholdLists : IngestResume(g, eps)
  /\ UNCHANGED otherVars

NextDedup ==
  \/ Ingest
  \/ IngestAtThreshold
  \/ FlushStepOk
  \/ TimerFire

SpecDedup == InitDedup /\ [][NextDedup]_vars

\* ------------------------------- retrieval over the queue and the store:
\* replies of both communities while episodes are remembered and flushed
NextTopK ==
  \/ NoReply /\ Remember
  \/ NoReply /\ RememberContinue
  \/ NoReply /\ FlushStepOk
  \/ NoReply /\ TimerFire
  \/ Retrieve
  \/ assemble

SpecTopK == InitDedup /\ [][NextTopK]_vars

\* --------------------------------- retrieval with and without counting:
\* both builds over the stored episodes, further ingests and flushes
\* between replies, the counting of a reply's memories running on after
\* the reply.  One updateAccessCounts call is in flight at a time.
MaxAccessCount == 2

\* One stored episode of g1, which the counting build has counted once
InitRecall ==
  /\ now = 4
  /\ relWriter \in RelWriters
  /\ episodic = IF relWriter = "working-memory"
                  THEN <<AgedRow(1, "g1", 1, 2, 1, FALSE)>>
                  ELSE <<StoredRow(1, "g1", 1, 2)>>
  /\ InitQueue
  /\ retrieved = NoRetrieve
  /\ accessUpdates = NoAccessUpdates
  /\ InitApi
  /\ InitService
  /\ InitExtraction
  /\ InitLate
  /\ InitRelational
  /\ InitSemantic

RetrieveAndCount ==
  /\ accessUpdates = NoAccessUpdates
  /\ \A i \in 1..Len(episodic) : episodic[i].accessCount < MaxAccessCount
  /\ \E groupId \in Groups, recentText \in Queries, topK \in TopKs,
        chatHistoryStart \in ChatHistoryStarts, embedOk \in BOOLEAN :
       retrieveCounting(groupId, recentText, topK, chatHistoryStart, embedOk)

RetrieveOnly == relWriter = "person-learning" /\ Retrieve

NextRecall ==
  \/ NoReply /\ Remember
  \/ NoReply /\ RememberContinue
  \/ NoReply /\ FlushStepOk
  \/ NoReply /\ TimerFire
  \/ RetrieveOnly
  \/ RetrieveAndCount
  \/ assemble
  \/ updateAccessGet
  \/ updateAccessSet
  \/ updateAccessFail

SpecRecall == InitRecall /\ [][NextRecall]_vars


\* ------------------------------------- chunking of a stream of messages
\* Everything but the extraction is as after construction.
InitBeforeExtraction ==
  /\ now = 1
  /\ episodic = <<>>
  /\ InitQueue
  /\ retrieved = NoRetrieve
  /\ accessUpdates = NoAccessUpdates
  /\ InitApi
  /\ InitService
  /\ InitRelational
  /\ InitSemantic
  /\ chunks = <<>>
  /\ extraction = NoExtraction
  /\ InitLate

\* The message that follows the previous one after gap minutes (the first
\* message has timestamp 1: timestamps are milliseconds since 1970)
RECURSIVE TimestampOf(_, _)
TimestampOf(gaps, k) ==
  IF k = 1 THEN 1 ELSE TimestampOf(gaps, k - 1) + gaps[k - 1]

\* An ordered stream: kinds[k] is sent gaps[k - 1] minutes after
\* kinds[k - 1]
Stream(kinds, gaps) ==
  [k \in 1..Len(kinds) |->
     [timestamp |-> TimestampOf(gaps, k), isBot |-> kinds[k].isBot,
      content |-> kinds[k].content]]

\* The streams of up to n messages of the given kinds and gaps
StreamsOf(Kinds, Gaps, n) ==
  UNION {{Stream(kinds, gaps) : kinds \in [1..len -> Kinds],
                                gaps \in [1..(len - 1) -> Gaps]} :
           len \in 0..n}

\* Gaps below, at and above the idle gap
ChunkGaps == {1, GapLimit, GapLimit + 1}

InitChunk ==
  /\ InitBeforeExtraction
  /\ relWriter \in RelWriters
  /\ messages \in StreamsOf({[isBot |-> FALSE, content |-> "hello there"]},
                            ChunkGaps, MaxMessages + 1)

NextChunking == extractMemoriesStart

SpecChunk == InitChunk /\ [][NextChunking]_vars

\* ------------------------------------------- the choice of the chunks
\* What a message can be: somebody's message with any of the contents, or
\* a message of the persona
MessageKinds ==
  {[isBot |-> FALSE, content |-> c] : c \in Contents}
    \cup {[isBot |-> TRUE, content |-> "hello there"]}

\* One burst of messages, a minute apart, which chunkMessages keeps in
\* one chunk
InitFilter ==
  /\ InitBeforeExtraction
  /\ relWriter = "working-memory"
  /\ messages \in StreamsOf(MessageKinds, {1}, ChunkLimit)

NextFilter ==
  \/ extractMemoriesStart
  \/ SelectChunk

SpecFilter == InitFilter /\ [][NextFilter]_vars

\* ----------------------------------------------- extractMemories, whole
\* Bursts of one-character messages and of messages of the persona, with
\* and without idle gaps between them
ExtractKinds ==
  {[isBot |-> FALSE, content |-> "w"],
   [isBot |-> TRUE, content |-> "hello there"]}

\* The gaps of the stream that exceed the idle gap
IdleGaps(stream) ==
  Cardinality({k \in 1..(Len(stream) - 1) :
     stream[k + 1].timestamp - stream[k].timestamp > GapLimit})

InitExtract ==
  /\ InitBeforeExtraction
  /\ relWriter \in RelWriters
  /\ messages \in
       {s \in StreamsOf(ExtractKinds, {1, GapLimit + 1}, MaxMessages) :
          IdleGaps(s) <= MaxIdleGaps}

NextExtract ==
  \/ extractMemoriesStart
  \/ SelectChunk
  \/ TriageReturns
  \/ TriageThrows
  \/ ExtractChunkReturns
  \/ ExtractChunkThrows

SpecExtract == InitExtract /\ [][NextExtract]_vars


\* ---------------------------------------- the participants of a chunk
\* The messages a chunk can hold: of the members and of the persona
ChunkSenders ==
  {[isBot |-> FALSE, senderId |-> p.senderId, sender |-> p.sender] :
     p \in Members}
    \cup {[isBot |-> TRUE, senderId |-> "20000", sender |-> BotName]}

InitParticipants ==
  /\ InitBeforeExtraction
  /\ relWriter \in RelWriters
  /\ messages \in
       UNION {{[k \in 1..len |->
                  [timestamp |-> k, isBot |-> s[k].isBot,
                   content |-> "hello there", senderId |-> s[k].senderId,
                   sender |-> s[k].sender]] :
                 s \in [1..len -> ChunkSenders]} : len \in 1..2}

NextParticipants ==
  \E p \in RawIds, rel_ \in RawIds, named \in RawIds :
    extractChunkParse(<<p>>, rel_, named)

SpecParticipants == InitParticipants /\ [][NextParticipants]_vars

\* ------------------------------------------- the new facts of a result
\* The fact types and contents of a result's new facts: content 4 is at
\* cosine 0.9 of content 1, content 3 at 0, and content 5 is a text the
\* embedding call fails on.
FactTypes == {"trait", "preference"}
NewContents == {1, 3, 4, 5}

\* A row of 'mio.semantic' written a day ago
StoredFact(id, subject, factType, content, confidence, supersededBy) ==
  [id |-> id, subject |-> subject, factType |-> factType,
   content |-> content, embedding |-> Embed(content),
   confidence |-> confidence, supersededBy |-> supersededBy,
   lastConfirmed |-> 1]

\* The tables maintenance starts on: one fact of u1, at the cap or below
\* it, or a fact of u1 that a fact of another content has superseded
StoredTables ==
  {<<StoredFact(1, "u1", "trait", 1, 5, Null)>>,
   <<StoredFact(1, "u1", "trait", 1, 10, Null)>>,
   <<StoredFact(1, "u1", "trait", 1, 5, 2),
     StoredFact(2, "u1", "trait", 3, 5, Null)>>}

InitFacts ==
  /\ now = 2
  /\ episodic = <<[id |-> 1, groupId |-> "g1", summary |-> 1,
                   embedding |-> Embed(1), eventTime |-> 1,
                   archived |-> FALSE, accessCount |-> 0,
                   distilled |-> FALSE]>>
  /\ InitQueue
  /\ retrieved = NoRetrieve
  /\ accessUpdates = NoAccessUpdates
  /\ InitApi
  /\ InitService
  /\ InitExtraction
  /\ InitLate
  /\ InitRelational
  /\ semantic \in StoredTables
  /\ maintain = IdleMaintain
  /\ semWrites = 0
  /\ relWriter = "person-learning"

NewFactOfResult ==
  \E s \in Users, t \in FactTypes, c \in NewContents :
    MaintainNew(s, t, c, 5)

\* The observations of u1 in one extraction result: two of one content
ObservationBatch ==
  \E c \in DistilledContents :
    processPersonObservations(
      [i \in 1..2 |-> [content |-> c, importance |-> 8]], TRUE)

NextFacts ==
  \/ DistillationStart
  \/ MaintainLoad
  \/ NewFactOfResult
  \/ MaintainEnd
  \/ ObservationBatch

SpecFacts == InitFacts /\ [][NextFacts]_vars

\* ---------------------------------------------- the core impression
\* The rows a cycle finds: a new person, or a person whose core impression
\* was written 30 days ago; the last interaction is today or 11 days old
StoredCores ==
  {[NoCore EXCEPT !.coreImpression = c, !.coreImpressionUpdatedAt = 1,
                  !.lastInteraction = l] : c \in {0, 1}, l \in {20, 31}}

\* The person's facts: two or three active ones
StoredPersonFacts ==
  {<<StoredFact(1, "u1", "trait", 1, 5, Null),
     StoredFact(2, "u1", "trait", 3, 5, Null)>>,
   <<StoredFact(1, "u1", "trait", 1, 5, Null),
     StoredFact(2, "u1", "trait", 3, 5, Null),
     StoredFact(3, "u1", "preference", 4, 5, Null)>>}

\* The tones of the events, and the events written: of importance 0.5 in
\* either tone, of importance 0.8
EmotionalTones == {"warm", "cold"}
EventKinds == {<<5, "warm">>, <<5, "cold">>, <<8, "warm">>}

\* The last day of the behaviours
LastCoreDay == 32

InitCoreImpression ==
  /\ now = 31
  /\ episodic = <<>>
  /\ InitQueue
  /\ retrieved = NoRetrieve
  /\ accessUpdates = NoAccessUpdates
  /\ InitApi
  /\ InitService
  /\ InitExtraction
  /\ InitRelational
  /\ relWriter \in RelWriters
  /\ semantic \in StoredPersonFacts
  /\ maintain = IdleMaintain
  /\ semWrites = 0
  /\ lastNew = NoNewFact
  /\ pendingRelUpdates = 0
  /\ accepted = {}
  /\ InitParse
  /\ InitVibes
  /\ InitSched
  /\ core \in StoredCores

CoreImpressionCycle == \E answer \in CoreAnswers : updateCoreImpression(answer)

EventWritten == \E e \in EventKinds : SignificantEventWritten(e[1], e[2])

CoreDayPasses ==
  /\ now < LastCoreDay
  /\ DaysPass(1)

NextCoreImpression ==
  \/ CoreImpressionCycle
  \/ EventWritten
  \/ CoreDayPasses

SpecCore == InitCoreImpression /\ [][NextCoreImpression]_vars

\* ------------------------------------------------- the session vibes
\* The vibes of one extraction result: none, one, or two of the same
\* person of which the second lives shorter
VibeLists ==
  {<<>>,
   <<[userId |-> "u1", vibe |-> 1, ttlHours |-> 24]>>,
   <<[userId |-> "u2", vibe |-> 1, ttlHours |-> 24]>>,
   <<[userId |-> "u1", vibe |-> 1, ttlHours |-> 48],
     [userId |-> "u1", vibe |-> 2, ttlHours |-> 24]>>}

LastVibeDay == 4

InitVibe ==
  /\ InitWorkingMemory
  /\ InitRelational
  /\ InitSemantic
  /\ relWriter = "person-learning"

\* Extractions of the first community, each episode with the same summary
Recorded ==
  /\ offered < MaxRemembered
  /\ now < LastVibeDay
  /\ \E w \in BOOLEAN, vs \in VibeLists : ingestVibes("g1", w, vs)

RecordedContinue == \E g \in Groups : ingestVibesResume(g, <<1>>)

RecordedEmbedFail == \E g \in Groups : ingestVibesEmbedFail(g)

VibeRead == \E g \in Groups, u \in Users : getSessionVibe(g, u)

VibeDayPasses ==
  /\ now < LastVibeDay
  /\ DaysPass(1)

NextVibe ==
  \/ Recorded
  \/ RecordedContinue
  \/ RecordedEmbedFail
  \/ VibeRead
  \/ VibeDayPasses

SpecVibe == InitVibe /\ [][NextVibe]_vars

\* ------------------------------------------- the extraction scheduler
\* Messages arrive until LastArrival; the behaviours end at LastMinute,
\* more than maxWaitMinutes later
LastArrival == 6
LastMinute == 9

InitScheduler ==
  /\ InitWorkingMemory
  /\ InitRelational
  /\ InitSemantic
  /\ relWriter = "person-learning"

MessageArrives ==
  /\ now < LastArrival
  /\ \E g \in Groups, isBot \in BOOLEAN : onNewMessage(g, isBot)

ExtractionReturns == \E g \in Groups : extractionReturns(g)

MinutePasses ==
  /\ now < LastMinute
  /\ minutePasses

NextScheduler ==
  \/ MessageArrives
  \/ ExtractionReturns
  \/ timeoutCheck
  \/ MinutePasses

SpecScheduler == InitScheduler /\ [][NextScheduler]_vars

\* The messages of one community, under fairness: the timer keeps firing,
\* an extraction in flight returns, time passes
ArrivesInFirst ==
  /\ now < LastArrival
  /\ \E isBot \in BOOLEAN : onNewMessage("g1", isBot)

NextSchedulerFair ==
  \/ ArrivesInFirst
  \/ ExtractionReturns
  \/ timeoutCheck
  \/ MinutePasses

SpecSchedulerFair ==
  /\ InitScheduler
  /\ [][NextSchedulerFair]_vars
  /\ WF_vars(timeoutCheck)
  /\ WF_vars(ExtractionReturns)
  /\ WF_vars(MinutePasses)

\* ================================================================ claims
\* Two vectors are near-duplicates: cosine similarity above 0.9.
NearDuplicate(a, b) == CosCmp(a, b, 9, 10) = 1

\* Two records (pending or durable) of one accepted episode.
SameEpisode(x, y) ==
  /\ x.groupId = y.groupId
  /\ x.summary = y.summary
  /\ x.eventTime = y.eventTime

NoFlushRunning == \A s \in FlushSlots : ~Running(s)
NoIngestInFlight == \A g \in Groups : ing[g].st = "idle"
RowIds == 1..Len(episodic)
RowsOf(g) == {i \in RowIds : episodic[i].groupId = g}

\* ---- C1 ----
\* C1 (dedup): as long as no two flushes have overlapped, two durable rows
\* of one community are never near-duplicates of each other, unless they
\* are two writes of the same accepted episode after a collaborator
\* failure; so sequential ingest and flush calls with succeeding writes
\* leave one row per group of near-duplicate candidates.  And every
\* candidate an ingest has processed is represented: a near-duplicate of
\* it is pending or durable in its community when the ingest returns.
C1_NoDuplicateRows ==
  \A i \in RowIds : \A j \in RowIds :
    (/\ i < j
     /\ episodic[i].groupId = episodic[j].groupId
     /\ NearDuplicate(episodic[i].embedding, episodic[j].embedding))
    => \/ everOverlap
       \/ fails > 0 /\ SameEpisode(episodic[i], episodic[j])

C1_CandidatesCovered ==
  \A g \in Groups : \A eps \in EpisodeLists(g) :
    IngestResume(g, eps) =>
      \A k \in 1..Len(eps) :
        \/ \E i \in 1..Len(pendingEpisodic') :
             /\ pendingEpisodic'[i].groupId = g
             /\ NearDuplicate(Embed(eps[k]), pendingEpisodic'[i].embedding)
        \/ \E i \in 1..Len(episodic') :
             /\ episodic'[i].groupId = g
             /\ NearDuplicate(Embed(eps[k]), episodic'[i].embedding)

C1_Dedup == [](C1_NoDuplicateRows) /\ [][C1_CandidatesCovered]_vars

\* Three candidates were ingested for g1, two of them with similarity 0.95
\* (summaries 1 and 2), and flushed: exactly 2 durable rows for g1.
C1_Witness ==
  /\ offered = 3
  /\ fails = 0
  /\ ~everOverlap
  /\ pendingEpisodic = <<>>
  /\ NoFlushRunning
  /\ NoIngestInFlight
  /\ RowsOf("g2") = {}
  /\ Cardinality(RowsOf("g1")) = 2
  /\ \E i \in RowsOf("g1") : episodic[i].summary = 3
  /\ \E i \in RowsOf("g1") : episodic[i].summary \in {1, 2}

\* ---- C2 ----
\* C2 (flush postcondition): the step that completes a flush which ran with
\* no ingest and no other flush interleaved has issued one create per
\* pending item, the last rows of the store are those items in queue order
\* (community and event time as assigned at ingest, not archived, each item
\* once), and the queue is empty afterwards.
FlushCompletes(s) ==
  /\ Running(s)
  /\ flush'[s].st = "idle"
  /\ fails' = fails

C2_Step ==
  \A s \in FlushSlots :
    (FlushCompletes(s) /\ flush[s].clean) =>
      LET q == pendingEpisodic
          n == Len(q)
          m == Len(episodic')
      IN /\ flush[s].idx + 1 = n
         /\ m = Len(episodic) + 1
         /\ m >= n
         /\ \A k \in 1..n :
              LET r == episodic'[m - n + k]
              IN /\ r.id = m - n + k
                 /\ r.groupId = q[k].groupId
                 /\ r.summary = q[k].summary
                 /\ r.embedding = q[k].embedding
                 /\ r.eventTime = q[k].eventTime
                 /\ r.eventTime < now
                 /\ r.archived = FALSE
                 /\ Cardinality({j \in (m - n + 1)..m :
                                   SameEpisode(episodic'[j], q[k])}) = 1
         /\ pendingEpisodic' = <<>>
         /\ flushOutcome' = [result |-> "ok", clean |-> TRUE]

C2_FlushPostcondition == [][C2_Step]_vars

\* An undisturbed flush of two or more items has completed.
C2_Witness ==
  /\ flushOutcome = [result |-> "ok", clean |-> TRUE]
  /\ fails = 0
  /\ ~everOverlap
  /\ pendingEpisodic = <<>>
  /\ NoFlushRunning
  /\ Len(episodic) >= 2
  /\ \E i \in RowIds : \E j \in RowIds :
       episodic[i].eventTime # episodic[j].eventTime

\* ---- C3 ----
\* C3 (flush failure is at-least-once): the step in which a store write of
\* a flush fails ends that flush caught (it does not throw), removes no
\* item from the queue and keeps every durable row; no step ever removes or
\* changes a durable row; and the step that completes a flush leaves every
\* item of the array it iterated durable at least once.
FlushFails(s) ==
  /\ Running(s)
  /\ flush'[s].st = "idle"
  /\ fails' = fails + 1

C3_Step ==
  /\ \A i \in RowIds : Len(episodic') >= i /\ episodic'[i] = episodic[i]
  /\ \A s \in FlushSlots :
       /\ FlushFails(s) =>
            /\ flushOutcome'.result = "caught"
            /\ pendingEpisodic' = pendingEpisodic
            /\ episodic' = episodic
       /\ FlushCompletes(s) =>
            \A k \in 1..Len(FlushArray(s)) :
              \E j \in 1..Len(episodic') :
                SameEpisode(episodic'[j], FlushArray(s)[k])

C3_AtLeastOnce == [][C3_Step]_vars

\* A flush failed after writing a prefix and a later flush succeeded: an
\* episode of the prefix is durable twice, with no flushes overlapping.
C3_Witness ==
  /\ flushOutcome.result = "ok"
  /\ fails = 1
  /\ ~everOverlap
  /\ pendingEpisodic = <<>>
  /\ NoFlushRunning
  /\ \E i \in RowIds : \E j \in RowIds :
       i < j /\ SameEpisode(episodic[i], episodic[j])
  /\ \E i \in RowIds :
       Cardinality({j \in RowIds : SameEpisode(episodic[i], episodic[j])}) = 1

\* ---- C4 ----
\* C4 (timer liveness), as the safety property the claim needs: whenever
\* episodes are pending and neither a flush nor an ingest is in flight, the
\* flush timer is armed.  Where it fails, no timer-driven flush will ever
\* come: the queue is written only if ingest or a manual flush is called.
C4_TimerRetries ==
  (Len(pendingEpisodic) > 0 /\ NoFlushRunning /\ NoIngestInFlight)
    => flushTimer = "armed"

TierRank == [stranger |-> 0, acquaintance |-> 1, familiar |-> 2, close |-> 3]

\* ---- C5 ----
\* C5 (closeness tier never skips): every step that changes the tier of an
\* existing relational row moves it to an adjacent tier.
C5_Step ==
  (rel.exists /\ rel'.exists) =>
    LET d == TierRank[rel'.closenessTier] - TierRank[rel.closenessTier]
    IN d \in {-1, 0, 1}

C5_AdjacentOnly == [][C5_Step]_vars

\* ---- C6 ----
\* C6 (silence downgrade per distillation cycle): when a distillation cycle
\* completes for a person whose last interaction is more than 30 days ago
\* and whose tier was above stranger when the cycle started, the tier is
\* exactly one step below the tier at the start of the cycle.
C6_Step ==
  (/\ distillation # "idle"
   /\ distillation' = "idle"
   /\ rel'.exists
   /\ now' - rel'.lastInteraction > 30
   /\ cycleTier \in Tiers \ {"stranger"})
  => TierRank[rel'.closenessTier] = TierRank[cycleTier] - 1

C6_DistillationDowngrades == [][C6_Step]_vars

FactIds == 1..Len(semantic)
Retired(id) == semantic[id].supersededBy # 0

\* ---- C7 ----
\* C7 (supersession chain integrity): from every semantic fact, following
\* supersededBy leads, within as many steps as there are facts and so
\* without visiting a fact twice, to a fact whose supersededBy is null; every
\* reference names a fact of the table.
RECURSIVE ChainTerminates(_, _)
ChainTerminates(id, fuel) ==
  IF semantic[id].supersededBy = 0 THEN TRUE
  ELSE IF fuel = 0 THEN FALSE
  ELSE /\ semantic[id].supersededBy \in FactIds
       /\ ChainTerminates(semantic[id].supersededBy, fuel - 1)

C7_ChainIntegrity == \A id \in FactIds : ChainTerminates(id, Len(semantic))

\* A fact was superseded and its successor was superseded in a later cycle.
C7_Witness ==
  \E id \in FactIds :
    /\ Retired(id)
    /\ semantic[id].supersededBy \in FactIds
    /\ Retired(semantic[id].supersededBy)

\* ---- C8 ----
\* C8 (readers exclude superseded facts): in every state the memory context
\* that would be assembled, the impression inputs of distillation and the
\* existing-fact array of a maintenance call in flight hold no fact with a
\* non-null supersededBy; the existing-fact array is loaded from facts not
\* superseded in the store; and a person or cultural observation only
\* bumps a fact that is not superseded.
C8_Selected ==
  /\ \A id \in getMemoryContext.user \cup getMemoryContext.group :
       ~Retired(id)
  /\ \A id \in Ids(recentFacts("u1")) \cup {f.id : f \in coreFacts("u1")} :
       ~Retired(id)
  /\ \A i \in 1..Len(maintain.existingFacts) :
       maintain.existingFacts[i].supersededBy = 0

C8_Step ==
  /\ (maintain.phase = "idle" /\ maintain'.phase = "new") =>
       \A i \in 1..Len(maintain'.existingFacts) :
         ~Retired(maintain'.existingFacts[i].id)
  /\ (maintain' = maintain /\ Len(semantic') = Len(semantic)) =>
       \A id \in FactIds :
         semantic'[id] # semantic[id] => ~Retired(id)

C9_ConfidenceInRange ==
  \A id \in FactIds :
    semantic[id].confidence >= 0 /\ semantic[id].confidence <= 10

\* ---- C10 ----
\* C10 (retrieval eligibility): every memory a retrieve call returns was read
\* from a durable row or a pending episode of the community asked for; a
\* durable row it was read from is not archived; when chatHistoryStart is
\* given, the memory's event time is strictly before it.  No step removes a
\* row from the store or changes its id, community, summary or event time,
\* and the rows a step archives leave the active count for the archived
\* count.
ReadFromRow(m, groupId) ==
  /\ m.id \in 1..Len(episodic)
  /\ episodic[m.id].id = m.id
  /\ episodic[m.id].groupId = groupId
  /\ episodic[m.id].summary = m.summary
  /\ episodic[m.id].eventTime = m.eventTime
  /\ ~episodic[m.id].archived

ReadFromPending(m, groupId) ==
  /\ m.id = 0
  /\ \E i \in 1..Len(pendingEpisodic) :
       /\ pendingEpisodic[i].groupId = groupId
       /\ pendingEpisodic[i].summary = m.summary
       /\ pendingEpisodic[i].eventTime = m.eventTime

C10_Returned ==
  (retrieved = NoRetrieve /\ retrieved' # NoRetrieve) =>
    \A k \in 1..Len(retrieved'.results) :
      LET m == retrieved'.results[k]
      IN /\ m.groupId = retrieved'.groupId
         /\ ReadFromRow(m, retrieved'.groupId)
              \/ ReadFromPending(m, retrieved'.groupId)
         /\ retrieved'.chatHistoryStart # 0 =>
              m.eventTime < retrieved'.chatHistoryStart

NewlyArchived ==
  {i \in 1..Len(episodic) : ~episodic[i].archived /\ episodic'[i].archived}

C10_RowsStay ==
  /\ Len(episodic') >= Len(episodic)
  /\ \A i \in 1..Len(episodic) :
       /\ episodic'[i].id = episodic[i].id
       /\ episodic'[i].groupId = episodic[i].groupId
       /\ episodic'[i].summary = episodic[i].summary
       /\ episodic'[i].eventTime = episodic[i].eventTime
  /\ Len(episodic') = Len(episodic) =>
       /\ episodicStats'.active =
            episodicStats.active - Cardinality(NewlyArchived)
       /\ episodicStats'.archived >=
            episodicStats.archived + Cardinality(NewlyArchived)

C10_RetrievalEligibility == [][C10_Returned /\ C10_RowsStay]_vars

\* A retrieve call for a community has returned a durable row's memory
\* while the store held an archived row of that community and an active row
\* of the other one, and a pending episode of the community was left out
\* because its event time is not before chatHistoryStart.
C10_Witness ==
  /\ retrieved # NoRetrieve
  /\ \E k \in 1..Len(retrieved.results) : retrieved.results[k].id # 0
  /\ \E i \in 1..Len(episodic) :
       episodic[i].groupId = retrieved.groupId /\ episodic[i].archived
  /\ \E i \in 1..Len(episodic) :
       episodic[i].groupId # retrieved.groupId /\ ~episodic[i].archived
  /\ retrieved.chatHistoryStart # 0
  /\ \E i \in 1..Len(pendingEpisodic) :
       /\ pendingEpisodic[i].groupId = retrieved.groupId
       /\ pendingEpisodic[i].eventTime >= retrieved.chatHistoryStart

\* C11: nothing is physically deleted.  Along ingest, flush, observations,
\* retrieval and distillation cycles every row of the episodic and of the
\* semantic collection stays, under its id, at its place, the relational row
\* stays once written, and the step that ends a cycle with cleanup changes
\* no field of an episodic row but archived.
C11_SameButArchived(i) ==
  episodic'[i] = [episodic[i] EXCEPT !.archived = episodic'[i].archived]

C11_Step ==
  /\ Len(episodic') >= Len(episodic)
  /\ Len(semantic') >= Len(semantic)
  /\ \A i \in 1..Len(episodic) : episodic'[i].id = episodic[i].id
  /\ \A i \in 1..Len(semantic) : semantic'[i].id = semantic[i].id
  /\ rel.exists => rel'.exists
  /\ (distillation = "cleanup" /\ distillation' = "idle") =>
       /\ Len(episodic') = Len(episodic)
       /\ \A i \in 1..Len(episodic) : C11_SameButArchived(i)
       /\ semantic' = semantic
       /\ rel' = rel

C12_Active == {i \in 1..Len(episodic) : ~episodic[i].archived}

C12_FirstPass ==
  IF relWriter = "working-memory"
    THEN {i \in C12_Active : Retention(episodic[i]) < 10000}
    ELSE {i \in C12_Active : episodic[i].eventTime < now - 21}

C12_Step ==
  (distillation = "cleanup" /\ distillation' = "idle") =>
    LET afterFirst == Cardinality(C12_Active) - Cardinality(C12_FirstPass)
        byCapacity == {i \in C12_Active \ C12_FirstPass :
                         episodic'[i].archived}
    IN /\ \A i \in C12_FirstPass : episodic'[i].archived
       /\ Cardinality(byCapacity) = Max(0, afterFirst - activePoolLimit)
       /\ Cardinality({i \in 1..Len(episodic') : ~episodic'[i].archived})
            <= activePoolLimit

C12_CapacityBound == [][C12_Step]_vars

\* A cleanup has brought the pool back to activePoolLimit by archiving an
\* episode that had not expired
C12_Witness ==
  /\ distillation = "idle"
  /\ Cardinality(C12_Active) = activePoolLimit
  /\ \E i \in 1..Len(episodic) :
       episodic[i].archived /\ episodic[i].eventTime >= now - 21

\* C13: the eviction order.  The episodes the capacity pass archives are the
\* ones of lowest retention: when a cycle ends with cleanup, no episode left
\* active has a retention strictly lower than an episode the capacity pass
\* archived in that cleanup.
C13_Step ==
  (distillation = "cleanup" /\ distillation' = "idle") =>
    \A e \in C12_Active \ C12_FirstPass :
      episodic'[e].archived =>
        \A k \in C12_Active :
          ~episodic'[k].archived =>
             Retention(episodic[k]) >= Retention(episodic[e])

C13_EvictionOrder == [][C13_Step]_vars

\* C14 as stated: retention is monotone in the event time.  Of two episodes
\* with equal importance and equal access count, the one with the older
\* event time has a retention, as cleanup computes it with the reduction
\* for distilled episodes, that is at most the retention of the newer one.
C14_Rows == 1..Len(episodic)

C14_SameHistory(i, j) ==
  /\ importance(episodic[i].summary) = importance(episodic[j].summary)
  /\ episodic[i].accessCount = episodic[j].accessCount
  /\ episodic[i].eventTime < episodic[j].eventTime

C14_AsStated ==
  \A i \in C14_Rows, j \in C14_Rows :
    C14_SameHistory(i, j) =>
      Retention(episodic[i]) <= Retention(episodic[j])

\* C14, amended: of two episodes with equal importance, equal access count
\* and the same distilled flag, the one with the older event time has a
\* retention that is at most the retention of the newer one.
C14_RetentionMonotone ==
  \A i \in C14_Rows, j \in C14_Rows :
    (C14_SameHistory(i, j) /\ episodic[i].distilled = episodic[j].distilled)
      => Retention(episodic[i]) <= Retention(episodic[j])

\* The store of the build that scores retention holds two episodes of equal
\* importance, access count and distilled flag and of different age, the
\* older with the strictly lower retention
C14_Witness ==
  /\ relWriter = "working-memory"
  /\ \E i \in C14_Rows, j \in C14_Rows :
       /\ C14_SameHistory(i, j)
       /\ episodic[i].distilled = episodic[j].distilled
       /\ Retention(episodic[i]) < Retention(episodic[j])

\* C15: a failing stage is isolated.  When a stage of a community throws
\* during run(), the failure is caught and the stages that remain, cleanup
\* among them, still run in the same cycle: a cycle that has started leaves
\* its community stages only for cleanup.
C15_Step == distillation = "running" => distillation' \in {"running", "cleanup"}

C15_FailureIsolation == [][C15_Step]_vars

\* C16: a malformed model output is never partially applied.  A result of
\* semantic maintenance with an entry that violates the schema writes
\* nothing to the store: once the call has met such an entry, no step of the
\* cycle changes the semantic facts.
C16_Step ==
  (distillation = "running" /\ maintain.invalid) => semantic' = semantic

C16_AllOrNothing == [][C16_Step]_vars

\* C17: the stage order.  Within a cycle the stages run in the order
\* backfill, semantic maintenance, impression rewrite, cleanup, each after
\* the one before has finished: the cycle only moves forward through its
\* stages, the semantic facts change only during semantic maintenance, an
\* impression is written only when maintenance has returned, and rows are
\* archived only by the cleanup that follows the impressions.
C17_Stage ==
  CASE distillation = "idle" -> 0
    [] distillation = "cleanup" -> 4
    [] distillation = "running" /\ maintain.phase = "idle" -> 1
    [] distillation = "running" /\ maintain.phase = "done" -> 3
    [] OTHER -> 2

C17_Step ==
  /\ C17_Stage' # C17_Stage => (C17_Stage' > C17_Stage \/ C17_Stage' = 0)
  /\ (distillation # "idle" /\ semantic' # semantic) =>
       (C17_Stage = 2 /\ C17_Stage' = 2)
  /\ (distillation # "idle" /\ rel' # rel) =>
       (C17_Stage \in {1, 3} /\ C17_Stage' = 4)
  /\ (\E i \in 1..Len(episodic) : episodic'[i].archived # episodic[i].archived)
       => (C17_Stage = 4 /\ C17_Stage' = 0)

C20_IngestStep(h) ==
  \/ ing'[h] # ing[h]
  \/ \E s \in FlushSlots :
       /\ Running(s)
       /\ flush[s].by = h
       /\ (flush'[s].idx # flush[s].idx \/ flush'[s].st # flush[s].st)

C20_Step ==
  \A g \in Groups, h \in Groups :
    (g # h /\ C20_IngestStep(h)) =>
      SelectSeq(pendingEpisodic', LAMBDA e : e.groupId = g)
        = getPendingEpisodic(g)

C20_Isolation == [][C20_Step]_vars

\* C18: no failure escapes the public API.  When extraction or buffering
\* fails, record does not throw and the summary it returns has
\* worthRemembering false and all counts 0.
C18_NothingRemembered ==
  lastSummary.failed =>
    (~lastSummary.worthRemembering /\ lastSummary.episodes = 0)

\* C19: extraction is serialized per community.  At most one memory.record
\* started by triggerMemoryExtraction is in flight for a community, a
\* trigger that arrives meanwhile starts no second one, and the lock is
\* held exactly while the call is in flight: it is released when the call
\* ends, in success and in failure alike.
C19_Serialized ==
  \A g \in Groups :
    /\ recording[g].calls <= 1
    /\ extractionLocks[g] <=> recording[g].calls = 1

\* The extractions of the two communities are in flight at once, the one
\* of g1 started after an extraction of g1 that failed
C19_Witness ==
  /\ recording["g1"].calls = 1
  /\ recording["g2"].calls = 1
  /\ lastSummary.groupId = "g1"
  /\ lastSummary.failed
\* ------------------------------------------------------------- C21
\* C21: once MemoryService.dispose() has been called, neither the flush
\* timer nor the distillation timer is armed, whatever was in flight when
\* it was called (an ingest awaiting embedBatch, a scheduled distillation
\* run), so that no scheduled flush or run can start any more.
C21_NoTimerAfterDispose ==
  disposed => flushTimer # "armed" /\ distillationTimer # "armed"

\* ------------------------------------------------------------- C22
\* The step in which the ingest call of community g passes its last
\* statement before the size test: the call record makes with the
\* extraction result and that does not await embedBatch, or the call
\* resuming from embedBatch.
C22_IngestReachesEnd(g) ==
  \/ /\ recording[g].st = "extract"
     /\ recording'[g].st = "ingest"
     /\ ing'[g].st = "idle"
  \/ /\ ing[g].st = "embed"
     /\ ing'[g].st = "idle"

\* C22: every ingest call resets the flush timer, whatever the extraction
\* result holds (nothing worth remembering, candidates that are all
\* duplicates, an embedding failure): the timer is armed when it is over.
C22_Step ==
  \A g \in Groups : C22_IngestReachesEnd(g) => flushTimer' = "armed"

C22_EveryIngestResets == [][C22_Step]_vars

\* ------------------------------------------------------------- C23
\* A flush() call that the ingest of community g awaits is in flight.
C23_AwaitsFlush(fl, g) ==
  \E s \in FlushSlots : fl[s].st = "run" /\ fl[s].by = g

\* The ingest call of g passes its dedup loop (or its catch block) and
\* reaches the size test in this step.
C23_EndsLoop(g) == ing[g].st = "embed" /\ ing'[g].st = "idle"

\* The ingest call of g returns in this step: after the size test when it
\* starts no flush, or when the flush it awaited is over.
C23_Returns(g) ==
  \/ C23_EndsLoop(g) /\ ~C23_AwaitsFlush(flush', g)
  \/ C23_AwaitsFlush(flush, g) /\ ~C23_AwaitsFlush(flush', g)

\* The ingest call record makes returns without awaiting anything.
C23_ReturnsAtOnce(g) ==
  /\ recording[g].st = "extract"
  /\ recording'[g].st = "ingest"
  /\ ing'[g].st = "idle"

\* C23 (amended): an ingest call whose result is worth remembering and
\* that leaves the queue at or above maxPendingWrites runs flush before it
\* returns, and when the store writes succeed the queue holds fewer than
\* maxPendingWrites items when such a call returns, with no timer firing.
C23_Step ==
  \A g \in Groups :
    /\ C23_EndsLoop(g) /\ Len(pendingEpisodic') >= maxPendingWrites
         => C23_AwaitsFlush(flush', g)
    /\ C23_Returns(g) => Len(pendingEpisodic') < maxPendingWrites

C23_AsStatedStep ==
  \A g \in Groups :
    C23_Returns(g) \/ C23_ReturnsAtOnce(g)
      => Len(pendingEpisodic') < maxPendingWrites

C24_AtLeast(a, b) == CosCmp(a, b, 9, 10) >= 0

\* Candidate k of the list eps an ingest of g resumes with has a
\* counterpart of similarity >= 0.9 among the pending episodes of g or
\* among the non-archived rows of g.
C24_HasCounterpart(g, eps, k) ==
  \/ \E i \in 1..Len(pendingEpisodic) :
       /\ pendingEpisodic[i].groupId = g
       /\ C24_AtLeast(Embed(eps[k]), pendingEpisodic[i].embedding)
  \/ \E r \in 1..Len(episodic) :
       /\ episodic[r].groupId = g
       /\ ~episodic[r].archived
       /\ C24_AtLeast(Embed(eps[k]), episodic[r].embedding)

\* The ingest has queued an episode with the summary of candidate k.
C24_Accepted(eps, k) ==
  \E i \in (Len(pendingEpisodic) + 1)..Len(pendingEpisodic') :
    pendingEpisodic'[i].summary = eps[k]

\* C24: ingest rejects a candidate whose cosine similarity to a pending
\* episode or to a non-archived durable episode of its community is
\* greater than or equal to 0.9 (exactly 0.9 included), and accepts a
\* candidate that has no such counterpart, in the queue, in the store or
\* in its own batch, even when an archived episode is similar to it.
C24_Step ==
  \A g \in Groups : \A eps \in ThresholdLists :
    IngestResume(g, eps) =>
      \A k \in 1..Len(eps) :
        /\ C24_HasCounterpart(g, eps, k) => ~C24_Accepted(eps, k)
        /\ (/\ ~C24_HasCounterpart(g, eps, k)
            /\ \A j \in 1..Len(eps) :
                 j # k => ~C24_AtLeast(Embed(eps[k]), Embed(eps[j])))
           => C24_Accepted(eps, k)

C24_InclusiveThreshold == [][C24_Step]_vars

\* ------------------------------------------------------------- C25
\* An episode (row or pending) retrieve may score for a call with this
\* community and chatHistoryStart.
C25_Scored(ep, groupId, chatHistoryStart) ==
  /\ ep.groupId = groupId
  /\ Len(ep.embedding) > 0
  /\ ~(chatHistoryStart # 0 /\ ep.eventTime >= chatHistoryStart)

\* The eligible candidates of a call: the community's non-archived durable
\* episodes and its pending Working Memory episodes, with their scores.
C25_Eligible(groupId, recentText, chatHistoryStart) ==
  {Candidate(Embed(recentText), recentText, episodic[i], episodic[i].id) :
     i \in {r \in 1..Len(episodic) :
              /\ ~episodic[r].archived
              /\ C25_Scored(episodic[r], groupId, chatHistoryStart)}}
  \cup
  {Candidate(Embed(recentText), recentText, pendingEpisodic[j], 0) :
     j \in {p \in 1..Len(pendingEpisodic) :
              C25_Scored(pendingEpisodic[p], groupId, chatHistoryStart)}}

\* res is a selection of the topK best of elig, best first.
C25_TopK(res, elig, topK) ==
  /\ Len(res) = Min(topK, Cardinality(elig))
  /\ \A i \in 1..Len(res) : res[i] \in elig
  /\ \A i \in 1..Len(res) : \A j \in 1..Len(res) :
       i < j => res[i] # res[j] /\ res[i].score >= res[j].score
  /\ \A e \in elig :
       (\A i \in 1..Len(res) : res[i] # e)
         => \A i \in 1..Len(res) : res[i].score >= e.score

\* C25 (amended): a retrieve whose query was embedded returns
\* min(topK, number of eligible candidates) episodes in non-increasing
\* score order, none scoring below an eligible candidate that is not
\* returned, the pending episodes of the community being eligible like
\* its durable ones; a retrieve whose query embedding fails returns none.
C25_Step ==
  (retrieved = NoRetrieve /\ retrieved' # NoRetrieve) =>
    LET groupId == retrieved'.groupId
        chatHistoryStart == retrieved'.chatHistoryStart
    IN \A recentText \in Queries, topK \in TopKs, embedOk \in BOOLEAN :
         retrieve(groupId, recentText, topK, chatHistoryStart, embedOk) =>
           IF embedOk
             THEN C25_TopK(retrieved'.results,
                           C25_Eligible(groupId, recentText,
                                        chatHistoryStart),
                           topK)
             ELSE retrieved'.results = <<>>

C25_AsStatedStep ==
  (retrieved = NoRetrieve /\ retrieved' # NoRetrieve) =>
    LET groupId == retrieved'.groupId
        chatHistoryStart == retrieved'.chatHistoryStart
    IN \A recentText \in Queries, topK \in TopKs, embedOk \in BOOLEAN :
         retrieve(groupId, recentText, topK, chatHistoryStart, embedOk) =>
           C25_TopK(retrieved'.results,
                    C25_Eligible(groupId, recentText, chatHistoryStart),
                    topK)

C26_Retrieves == retrieved = NoRetrieve /\ retrieved' # NoRetrieve

\* Row i is a row of the returned memory mem (a returned memory carries
\* no row id: community, summary and event time identify it).
C26_RowOf(i, mem) ==
  /\ episodic[i].groupId = mem.groupId
  /\ episodic[i].summary = mem.summary
  /\ episodic[i].eventTime = mem.eventTime

\* C26: a retrieve call changes nothing of the Working Memory queue, its
\* timer, the durable episodes, the relational row or the semantic facts;
\* at most it hands the memories it returns to the access counting, which
\* runs after the call.  A durable row changes only in its access count,
\* and only when it is the row of a returned memory being counted.  The
\* counting, whether it writes, fails or has not run yet, changes neither
\* the result that was returned nor the queue.
C26_Step ==
  /\ Len(episodic') >= Len(episodic)
  /\ C26_Retrieves =>
       /\ pendingEpisodic' = pendingEpisodic
       /\ episodic' = episodic
       /\ flushTimer' = flushTimer
       /\ flush' = flush
       /\ rel' = rel
       /\ semantic' = semantic
       /\ \/ accessUpdates' = accessUpdates
          \/ accessUpdates' =
               [accessUpdates EXCEPT !.todo = @ \o retrieved'.results]
  /\ \A i \in 1..Len(episodic) :
       episodic'[i] # episodic[i] =>
         /\ accessUpdates.todo # <<>>
         /\ C26_RowOf(i, Head(accessUpdates.todo))
         /\ episodic'[i] =
              [episodic[i] EXCEPT !.accessCount = episodic'[i].accessCount]
  /\ (accessUpdates' # accessUpdates /\ ~C26_Retrieves) =>
       /\ retrieved' = retrieved
       /\ pendingEpisodic' = pendingEpisodic
       /\ Len(episodic') = Len(episodic)

C26_RetrieveDoesNotMutate == [][C26_Step]_vars

\* A reply is being assembled with a memory read from a row that was
\* flushed after startup; the counting of that memory has written the row
\* and is over.
C26_Witness ==
  /\ relWriter = "working-memory"
  /\ retrieved # NoRetrieve
  /\ accessUpdates = NoAccessUpdates
  /\ \E k \in 1..Len(retrieved.results) :
       LET i == retrieved.results[k].id
       IN /\ i > 1
          /\ i <= Len(episodic)
          /\ episodic[i].accessCount = 1

\* ------------------------------------------------------------- C27
RECURSIVE C27_Concat(_)
C27_Concat(cs) ==
  IF cs = <<>> THEN <<>> ELSE Head(cs) \o C27_Concat(Tail(cs))

\* The minutes between the last message of chunk i and the first message
\* of chunk i + 1
C27_GapAfter(i) ==
  chunks[i + 1][1].timestamp - chunks[i][Len(chunks[i])].timestamp

\* C27: chunkMessages returns a partition of its input: the chunks in
\* order concatenate to the input, no chunk is empty or longer than the
\* size cap, no two consecutive messages of a chunk are more than five
\* minutes apart, and a chunk ends only before a gap of more than five
\* minutes or when it has reached the size cap.
C27_ChunksPartition ==
  extraction.stage # "idle" =>
    /\ C27_Concat(chunks) = messages
    /\ \A i \in 1..Len(chunks) :
         /\ Len(chunks[i]) >= 1
         /\ Len(chunks[i]) <= ChunkLimit
         /\ \A k \in 1..(Len(chunks[i]) - 1) :
              chunks[i][k + 1].timestamp - chunks[i][k].timestamp
                <= GapLimit
    /\ \A i \in 1..(Len(chunks) - 1) :
         \/ C27_GapAfter(i) > GapLimit
         \/ Len(chunks[i]) = ChunkLimit

\* A stream cut once by the size cap, without a gap, and once by a gap,
\* after a chunk below the cap that holds a gap of exactly five minutes
C27_Witness ==
  /\ extraction.stage # "idle"
  /\ Len(chunks) = 3
  /\ Len(chunks[1]) = ChunkLimit
  /\ C27_GapAfter(1) <= GapLimit
  /\ \E k \in 1..(Len(chunks[1]) - 1) :
       chunks[1][k + 1].timestamp - chunks[1][k].timestamp = GapLimit
  /\ Len(chunks[2]) < ChunkLimit
  /\ C27_GapAfter(2) > GapLimit

\* ------------------------------------------------------------- C28
\* A near-empty message: at most three characters, or emoji only
C28_NearEmpty(msg) ==
  RenderedLength(msg.content) <= 3 \/ EmojiOnly(msg.content)

\* More than 60% of the chunk's messages are near-empty
C28_MostlyNearEmpty(chunk) ==
  Cardinality({k \in 1..Len(chunk) : C28_NearEmpty(chunk[k])}) * 10
    > 6 * Len(chunk)

\* More than 70% of the chunk's messages have the same content after trim
\* and lower-casing
C28_MostlySame(chunk) ==
  \E k \in 1..Len(chunk) :
    Cardinality({j \in 1..Len(chunk) :
       Normalized(chunk[j].content) = Normalized(chunk[k].content)}) * 10
      > 7 * Len(chunk)

\* C28: isSpamChunk(chunk) is true exactly for the chunks of which more
\* than 60% of the messages are near-empty or more than 70% have the same
\* normalized content, whatever the size of the chunk.
C28_SpamIffRatios ==
  \A i \in 1..Len(extraction.selected) :
    extraction.selected[i].spam
      <=> (C28_MostlyNearEmpty(chunks[i]) \/ C28_MostlySame(chunks[i]))

\* ------------------------------------------------------------- C29
\* The chunk holds a message of the persona or a message that mentions it
C29_PersonaInvolved(chunk) ==
  \E k \in 1..Len(chunk) :
    chunk[k].isBot \/ MentionsMio(chunk[k].content)

\* The chunk's messages match the topic keywords often enough
C29_EnoughTopics(chunk) == MatchCount(chunk) >= TopicMatches

\* Every chunk with persona involvement is selected
C29_InvolvedSelected ==
  \A i \in 1..Len(extraction.selected) :
    C29_PersonaInvolved(chunks[i]) => extraction.selected[i].take

\* What the sample draws decides only for chunks without persona
\* involvement and without enough topic keywords
C29_SampledOnlyOthers ==
  \A i \in 1..Len(extraction.selected) :
    shouldExtractChunk(chunks[i], TRUE) # shouldExtractChunk(chunks[i], FALSE)
      => /\ ~C29_PersonaInvolved(chunks[i])
         /\ ~C29_EnoughTopics(chunks[i])

\* C29: shouldExtractChunk returns true for every chunk with a message of
\* the persona or a message mentioning it, whatever the other messages
\* are and whatever the sample draws; only chunks without persona
\* involvement and without enough topic keywords are left to the sample.
C29_PersonaChunksSelected == C29_InvolvedSelected /\ C29_SampledOnlyOthers

\* ------------------------------------------------------------- C30
\* The chunks of the call the model has been asked about, and the chunks
\* with something in the merged result
C30_Called ==
  {extraction.calls[k].chunk : k \in 1..Len(extraction.calls)}
C30_Merged ==
  {extraction.merged[k].chunk : k \in 1..Len(extraction.merged)}

\* C30: a spam chunk never reaches the model: extractMemories makes
\* neither the triage call nor the extraction call for a chunk on which
\* isSpamChunk is true, and nothing of it is in the merged result.
C30_SpamNeverReachesModel ==
  \A i \in 1..Len(chunks) :
    isSpamChunk(chunks[i]) => i \notin C30_Called \cup C30_Merged

\* ------------------------------------------------------------- C31
\* The chunk's known identifiers: the sender ids of its messages that are
\* not the persona's, and the persona's canonical id
C31_Known ==
  {"bot"} \cup {messages[k].senderId :
                  k \in {j \in 1..Len(messages) : ~messages[j].isBot}}

C31_Forwarded ==
  {parsed.participants[k] : k \in 1..Len(parsed.participants)}
    \cup {parsed.relationalUpdates[k] :
            k \in 1..Len(parsed.relationalUpdates)}
    \cup {parsed.nameObservations[k] :
            k \in 1..Len(parsed.nameObservations)}

\* C31: every participant identifier extractChunk forwards, in episode
\* participants and in relational and name observations, belongs to the
\* chunk's known-identifier set; an identifier that cannot be resolved is
\* not forwarded.
C31_ParticipantsKnown == parsed.called => C31_Forwarded \subseteq C31_Known

\* ------------------------------------------------------------- C32
\* The step processes one entry of result.newFacts
C32_NewFactStep ==
  /\ maintain'.phase = "new"
  /\ maintain'.items = maintain.items + 1

\* The facts maintenance loaded (none of them superseded) that have the
\* subject and the fact type of the entry and a cosine similarity of at
\* least 0.9 to it
C32_Matches ==
  {i \in 1..Len(maintain.existingFacts) :
     LET f == maintain.existingFacts[i]
     IN /\ f.supersededBy = Null
        /\ f.subject = lastNew'.subject
        /\ f.factType = lastNew'.factType
        /\ CosCmp(Embed(lastNew'.content), f.embedding, 9, 10) >= 0}

C32_Bumped(f) ==
  /\ Len(semantic') = Len(semantic)
  /\ semantic'[f.id].confidence = Min(10, f.confidence + 1)
  /\ semantic'[f.id].lastConfirmed = now
  /\ \A id \in 1..Len(semantic) : id # f.id => semantic'[id] = semantic[id]

C32_Inserted ==
  /\ Len(semantic') = Len(semantic) + 1
  /\ \A id \in 1..Len(semantic) : semantic'[id] = semantic[id]
  /\ LET row == semantic'[Len(semantic')]
     IN /\ row.subject = lastNew'.subject
        /\ row.factType = lastNew'.factType
        /\ row.content = lastNew'.content
        /\ row.supersededBy = Null

C33_StrongSignal ==
  LET fresh == {k \in 1..Len(core.events) : ~core.events[k].consumed}
  IN \/ \E k \in fresh : core.events[k].importance >= 8
     \/ /\ Cardinality(fresh) >= 5
        /\ \E t \in EmotionalTones :
             10 * Cardinality({k \in fresh :
                                 core.events[k].emotionalTone = t})
               >= 6 * Cardinality(fresh)

\* The person has a core impression updated within the last 30 days and
\* no strong signal
C33_Throttled ==
  /\ core.coreImpression # 0
  /\ now - core.coreImpressionUpdatedAt <= 30
  /\ ~C33_StrongSignal

\* C33: for a person with a non-empty core impression updated within the
\* last 30 days and no strong signal, a step (a distillation cycle
\* included) makes no model call for the core impression and leaves
\* coreImpression and coreImpressionUpdatedAt as they are; so a rewrite
\* happens only for a new person, on strong signal or after more than 30
\* days.
C33_CoreImpressionThrottle ==
  [][C33_Throttled =>
       /\ core'.calls = core.calls
       /\ core'.coreImpression = core.coreImpression
       /\ core'.coreImpressionUpdatedAt = core.coreImpressionUpdatedAt]_vars

\* A cycle has reached a person with three active facts, a core impression
\* exactly 30 days old, an interaction today and no strong signal, and
\* has made no call and left the impression.
C33_Witness ==
  /\ core.cycles = 1
  /\ core.calls = 0
  /\ core.coreImpression = 1
  /\ now - core.coreImpressionUpdatedAt = 30
  /\ core.lastInteraction >= now - 7
  /\ Len(semantic) = 3
  /\ ~C33_StrongSignal

\* ------------------------------------------------------------- C34
\* What getSessionVibe(g, u) returns now
C34_Visible(g, u) ==
  LET vibe == sessionVibes[g][u]
  IN IF vibe.vibe # 0 /\ now <= vibe.expiresAt THEN vibe.vibe ELSE 0

\* The newest vibe extraction returned for (g, u) in a record call that
\* has ended, while the clock has not passed its ingest time plus ttlHours
C34_Expected(g, u) ==
  LET vibe == vibeRead.returned[g][u]
  IN IF vibe.vibe # 0 /\ now <= vibe.expiresAt THEN vibe.vibe ELSE 0

\* C34: a vibe extraction returned for (g, u) is what getSessionVibe(g, u)
\* returns from the end of the record call until its expiry and not after,
\* also when the result is not worth remembering; the newest vibe replaces
\* the previous one.
C34_VibesVisible ==
  \A g \in Groups, u \in Users : C34_Visible(g, u) = C34_Expected(g, u)

\* ------------------------------------------------------------- C35
\* C35: a message that arrived in the buffer of a community while an
\* extraction for it was in flight is eventually among the messages of an
\* extraction, unless it has left the buffer; no further message is needed
\* for that.
C35_LateMessagesExtracted ==
  \A g \in Groups, t \in 1..LastArrival :
    (t \in sinceMark[g].late)
      ~> (t \in sinceMark[g].extracted \/ t \notin Timestamps(buffer[g]))

\* What holds: a message that arrived during an extraction and is still
\* buffered is newer than the cutoff of the next extraction
C35_LateMessagesNewer ==
  \A g \in Groups :
    \A k \in 1..Len(buffer[g]) :
      LET t == buffer[g][k].timestamp
      IN (t \in sinceMark[g].late /\ t \notin sinceMark[g].extracted)
           => t > lastExtractedAt[g]

\* ------------------------------------------------------------- C36
\* The decision the counts since the last markExtracted call for: n
\* messages counted, sinceBot of them after the persona's latest message
\* (-1: it has not spoken), elapsed minutes since the last extraction
C36_Expected(n, sinceBot, elapsed) ==
  IF n >= minMessages THEN <<TRUE, "batch">>
  ELSE IF sinceBot # -1 /\ sinceBot >= activeThreshold
    THEN <<TRUE, "active">>
  ELSE IF elapsed > maxWaitMinutes /\ n >= 1 THEN <<TRUE, "timeout">>
  ELSE <<FALSE, None>>

\* The step is onNewMessage for community g
C36_Arrived(g) == buffer'[g] # buffer[g]

\* The step is the markExtracted that ends an extraction of community g
C36_Marked(g) == Len(inExtraction[g]) > 0 /\ Len(inExtraction'[g]) = 0

C36_SameCounters(g) ==
  /\ pendingCount'[g] = pendingCount[g]
  /\ lastExtractedAt'[g] = lastExtractedAt[g]
  /\ lastActiveMark'[g] = lastActiveMark[g]

C36_Step ==
  \A g \in Groups :
    /\ C36_Arrived(g) =>
         LET msg == buffer'[g][Len(buffer'[g])]
             h == sinceMark[g]
             sinceBot == IF msg.isBot THEN 0
                         ELSE IF h.sinceBot = -1 THEN -1
                         ELSE h.sinceBot + 1
         IN /\ decision'.groupId = g
            /\ <<decision'.shouldExtract, decision'.reason>> =
                 C36_Expected(h.messages + 1, sinceBot,
                              now' - lastExtractedAt[g])
            /\ \A o \in Groups \ {g} : C36_SameCounters(o)
    /\ C36_Marked(g) =>
         /\ pendingCount'[g] = 0
         /\ lastActiveMark'[g] = -1
         /\ sinceMark'[g].messages = 0
         /\ \A o \in Groups \ {g} : C36_SameCounters(o)

\* C36: onNewMessage for community g reports batch exactly when the
\* messages counted since the last markExtracted(g) are at least
\* minMessages; otherwise active when the persona has spoken since and at
\* least activeThreshold messages were counted after its latest message;
\* otherwise timeout when more than maxWaitMinutes have passed since the
\* last extraction (one message at least is pending); otherwise
\* shouldExtract is false.  markExtracted(g) sets the count of g to 0 and
\* clears its active mark; a call for g leaves the counters of the other
\* communities.
C36_SchedulerTriggers == [][C36_Step]_vars

\* onNewMessage has reported active: fewer than minMessages were counted,
\* the persona has spoken and activeThreshold messages followed
C36_Witness ==
  /\ decision.shouldExtract
  /\ decision.reason = "active"
  /\ decision.pendingCount < minMessages
  /\ \E g \in Groups :
       /\ decision.groupId = g
       /\ Len(inExtraction[g]) > 0
       /\ \E o \in Groups \ {g} : pendingCount[o] > 0

\* The durable rows created from one pending episode: ingest stamps an
\* episode with the Date.now() of its call, and no two calls share it
C37_RowsOf(g, summary, eventTime) ==
  {i \in 1..Len(episodic) :
     /\ episodic[i].groupId = g
     /\ episodic[i].summary = summary
     /\ episodic[i].eventTime = eventTime}

\* C37: when flush() calls overlap (the timer-driven flush, the
\* size-triggered flush inside ingest and flushWorkingMemory can each start
\* while another awaits a store write), every pending episode is created
\* in the durable store at most once.
C37_WrittenOnce ==
  \A i \in 1..Len(episodic) :
    Cardinality(C37_RowsOf(episodic[i].groupId, episodic[i].summary,
                           episodic[i].eventTime)) <= 1

\* Without overlapping flushes and without a failed write (the retry of
\* a failed flush is another matter), an episode is created once
C37_WrittenOnceAlone ==
  (~everOverlap /\ fails = 0) => C37_WrittenOnce

\* Two flushes overlap, no write has failed, a row is created twice
C37_WrittenTwice ==
  /\ everOverlap
  /\ fails = 0
  /\ ~C37_WrittenOnce

\* The queue under ingest, the flush timer and the flush, in either build,
\* with no failing write: what becomes of the episodes ingest accepts
InitLoss ==
  /\ InitWorkingMemory
  /\ InitRelational
  /\ InitSemantic
  /\ relWriter \in RelWriters

\* The relational updates of one extraction result
RelUpdateCounts == {0, 1}

LossIngest ==
  /\ \E g \in Groups : IngestBegin(g, TRUE, TRUE)
  /\ UNCHANGED otherVars

LossIngestContinue ==
  /\ relWriter = "person-learning"
  /\ \E g \in Groups : \E eps \in EpisodeLists(g) :
       /\ IngestResume(g, eps)
       /\ accepted' =
            accepted \cup
              Appended(IngestLoop(pendingEpisodic, eps, g, ing[g].now))
  /\ UNCHANGED <<relVars, semVars, retVars, apiVars, svcVars, extVars,
                 parseVars, coreVars, vibeVars, schedVars, factVars,
                 pendingRelUpdates>>

LossIngestContinueWM ==
  /\ \E g \in Groups : \E eps \in EpisodeLists(g) :
       \E r \in RelUpdateCounts : ingestResumeWM(g, eps, r)
  /\ UNCHANGED <<relWriter, distillation, cycleTier, semVars, retVars,
                 apiVars, svcVars, extVars, parseVars, coreVars, vibeVars,
                 schedVars, factVars>>

LossTimerFire ==
  /\ relWriter = "person-learning"
  /\ TimerFire

LossTimerFireWM ==
  /\ timerFireWM
  /\ UNCHANGED <<relWriter, distillation, cycleTier, semVars, retVars,
                 apiVars, svcVars, extVars, parseVars, coreVars, vibeVars,
                 schedVars, factVars>>

LossFlushStep ==
  /\ relWriter = "person-learning"
  /\ \E s \in FlushSlots : FlushWriteOk(s)
  /\ UNCHANGED otherVars

LossFlushStepWM ==
  /\ \E s \in FlushSlots : flushWriteOkWM(s)
  /\ UNCHANGED <<relWriter, distillation, cycleTier, semVars, retVars,
                 apiVars, svcVars, extVars, parseVars, coreVars, vibeVars,
                 schedVars, factVars>>

LossRelationalStep ==
  /\ \E s \in FlushSlots : flushRelationalOk(s)
  /\ UNCHANGED <<relWriter, distillation, cycleTier, semVars, retVars,
                 apiVars, svcVars, extVars, parseVars, coreVars, vibeVars,
                 schedVars, factVars>>

NextLoss ==
  \/ LossIngest
  \/ LossIngestContinue
  \/ LossIngestContinueWM
  \/ LossTimerFire
  \/ LossTimerFireWM
  \/ LossFlushStep
  \/ LossFlushStepWM
  \/ LossRelationalStep

SpecLoss == InitLoss /\ [][NextLoss]_vars

\* An accepted episode is pending
C38_Pending(e) == \E i \in 1..Len(pendingEpisodic) : pendingEpisodic[i] = e

\* An accepted episode is a durable row
C38_Written(e) == C37_RowsOf(e.groupId, e.summary, e.eventTime) # {}

\* A flush in its episodic loop has the episode still before it
C38_Awaited(e) ==
  \E s \in FlushSlots :
    /\ Running(s)
    /\ \E k \in (flush[s].idx + 1)..Len(FlushArray(s)) : FlushArray(s)[k] = e

\* C38: no accepted episode is lost when ingest interleaves with flush:
\* an episode appended to the pending queue while a flush is suspended at
\* a store write is written or is still pending after the flush ends; the
\* queue reset at the end of flush never discards an unwritten episode,
\* in the flush that writes only episodes and in the flush that writes
\* relational updates after the episodes.
C38_NoEpisodeLost ==
  \A e \in accepted : C38_Pending(e) \/ C38_Written(e) \/ C38_Awaited(e)

\* The same, of the runs in which no two flushes overlap
C38_NoEpisodeLostAlone ==
  ~everOverlap => C38_NoEpisodeLost

\* The same, of the build whose flush writes only episodes
C38_NoEpisodeLostAloneEpisodesOnly ==
  (~everOverlap /\ relWriter = "person-learning") => C38_NoEpisodeLost

\* An episode is lost though no two flushes have overlapped
C38_LostAlone ==
  /\ ~everOverlap
  /\ ~C38_NoEpisodeLost

\* Two entries of a result are of the same ingested episode
C39_SameEpisode(a, b) ==
  /\ a.groupId = b.groupId
  /\ a.summary = b.summary
  /\ a.eventTime = b.eventTime

\* C39: the result of one retrieve call never contains two entries for
\* the same ingested episode, also when the call runs while a flush is in
\* progress and the episode is both already created in the durable store
\* and still present in the pending queue.
C39_NoEpisodeTwice ==
  \A i, j \in 1..Len(retrieved.results) :
    i < j => ~C39_SameEpisode(retrieved.results[i], retrieved.results[j])

\* The same, of the calls that run while no flush is in progress and
\* after which no two flushes have overlapped (no episode has two rows)
C39_NoEpisodeTwiceAtRest ==
  ((\A s \in FlushSlots : ~Running(s)) /\ ~everOverlap) => C39_NoEpisodeTwice

\* A result holds an episode as a durable row and as a pending episode,
\* and no two flushes have overlapped
C39_RowAndPending ==
  /\ ~everOverlap
  /\ \E i, j \in 1..Len(retrieved.results) :
       /\ C39_SameEpisode(retrieved.results[i], retrieved.results[j])
       /\ retrieved.results[i].id # 0
       /\ retrieved.results[j].id = 0

\* Two non-superseded facts of one subject and fact type whose cosine
\* similarity is at least num / den
C40_NearDuplicate(f, g, num, den) ==
  /\ f.supersededBy = Null
  /\ g.supersededBy = Null
  /\ f.subject = g.subject
  /\ f.factType = g.factType
  /\ Len(f.embedding) > 0
  /\ Len(g.embedding) > 0
  /\ CosCmp(f.embedding, g.embedding, num, den) >= 0

\* C40: after semantic maintenance completes, a community that held no
\* near-duplicates before holds no two non-superseded facts of the same
\* subject and fact type at cosine similarity 0.9 (the dedup threshold of
\* maintenance) or more; two near-identical new facts of one model output
\* produce one row.
C40_NoNearDuplicates ==
  maintain.phase \in {"idle", "done"} =>
    \A i, j \in 1..Len(semantic) :
      i < j => ~C40_NearDuplicate(semantic[i], semantic[j], 9, 10)

\* Maintenance has completed and left two rows of one content, subject
\* and fact type, both written by it
C40_SameOutputTwice ==
  /\ maintain.phase = "done"
  /\ ~rel.exists
  /\ \E i, j \in 1..Len(semantic) :
       /\ i < j
       /\ C40_NearDuplicate(semantic[i], semantic[j], 9, 10)
       /\ semantic[i].content = semantic[j].content
       /\ semantic[i].lastConfirmed = now
       /\ semantic[j].lastConfirmed = now

\* One batch of person observations, with no maintenance before it, has
\* left two rows of one content
C40_SameBatchTwice ==
  /\ maintain.phase = "idle"
  /\ rel.exists
  /\ \E i, j \in 1..Len(semantic) :
       /\ i < j
       /\ C40_NearDuplicate(semantic[i], semantic[j],
                            DEDUP_THRESHOLD_NUM, DEDUP_THRESHOLD_DEN)
       /\ semantic[i].content = semantic[j].content

====
